---- MODULE Spec2Model ----
(***************************************************************************)
(* Model of the random-walks library: the dynamic-program builder, the     *)
(* scalar forward pass, the dynamic-program pool and the six walkers that  *)
(* sample a path backwards from the table.                                 *)
(*                                                                         *)
(* f64 values are modelled by natural numbers (unnormalised mass): the     *)
(* program only adds and multiplies non-negative weights and tests them    *)
(* for zero, and the quotient (kernel * P_prev) / P_here of the walkers is *)
(* kept as numerator and denominator.  A Vec<Vec<..>> is a function on     *)
(* 0..n-1, a Vec<..> a sequence whose element i of the code is element     *)
(* i + 1 of the sequence.  An Option is the empty sequence (None) or a     *)
(* one-element sequence (Some).                                            *)
(***************************************************************************)
EXTENDS Integers, Sequences, FiniteSets, TLC

\* ------------------------------------------------------------------ bounds
MaxTimeLimit == 3
MaxBarriers == 1
MaxStepSize == 2
MaxSectionStepSize == 1

\* ----------------------------------------------------------------- helpers
None == <<>>
Some(v) == <<v>>
IsSome(o) == Len(o) = 1
Unwrap(o) == o[1]

\* the value a panicking read stands for
PANIC == -1

Abs(n) == IF n < 0 THEN -n ELSE n

Rows(m) == Cardinality(DOMAIN m)
Cols(m) == IF Rows(m) = 0 THEN 0 ELSE Cardinality(DOMAIN m[0])
Matrix(n, v) == [x \in 0..(n - 1) |-> [y \in 0..(n - 1) |-> v]]

RECURSIVE SumSeq(_)
SumSeq(s) == IF s = <<>> THEN 0 ELSE Head(s) + SumSeq(Tail(s))

RECURSIVE Reverse(_)
Reverse(s) == IF s = <<>> THEN <<>> ELSE Append(Reverse(Tail(s)), Head(s))

\* the elements of a finite range lo..hi in increasing order
RangeSeq(lo, hi) == [i \in 1..(IF hi < lo THEN 0 ELSE hi - lo + 1) |-> lo + i - 1]

\* ----------------------------------------------------------------- kernels
\* A kernel is its size x size matrix of weights.  The state holds a kernel
\* by its name; Probabilities gives its matrix.
KernelOf(n, f(_, _)) ==
    [x \in 0..(n - 1) |-> [y \in 0..(n - 1) |->
        f(x - (n \div 2), y - (n \div 2))]]

Probabilities(k) ==
    CASE k = "empty" ->
            \* kernel!(0.0, 0.0, 0.0, 0.0, 0.0, 0.0, 0.0, 0.0, 0.0)
            KernelOf(3, LAMBDA x, y : 0)
      [] k = "simple" ->
            \* the stencil stay / west / north / east / south
            KernelOf(3, LAMBDA x, y : IF Abs(x) + Abs(y) <= 1 THEN 1 ELSE 0)
      [] k = "box" ->
            \* every cell of the 3 x 3 box, diagonals included
            KernelOf(3, LAMBDA x, y : 1)
      [] k = "skew" ->
            \* 5 x 5, support not symmetric: stay, one east, two west
            KernelOf(5, LAMBDA x, y :
                IF y = 0 /\ x \in {0, 1, -2} THEN 1 ELSE 0)
      [] k = "stay" ->
            \* 1 x 1: only stays
            KernelOf(1, LAMBDA x, y : 1)

\* kernel.size()
KernelSize(k) == Rows(Probabilities(k))

\* kernel.at(x, y): the weight of the move (x, y), zero outside the stencil
KernelAt(k, x, y) ==
    LET ks == KernelSize(k) \div 2
    IN  IF x < -ks \/ x > ks \/ y < -ks \/ y > ks THEN 0
        ELSE Probabilities(k)[ks + x][ks + y]

EmptyKernel == "empty"
SimpleKernel == "simple"
BoxKernel == "box"
SkewKernel == "skew"
StayKernel == "stay"

\* the (label, kernel) lists handed to kernels(); in the last one the labels
\* are not the positions
KernelLists ==
    { <<<<0, SimpleKernel>>>>,
      <<<<0, SkewKernel>>>>,
      <<<<0, SimpleKernel>>, <<1, BoxKernel>>>>,
      <<<<1, SimpleKernel>>, <<0, BoxKernel>>>> }

\* one kernel per direction, for the pools of the directional walkers
KernelFamilies ==
    { <<SimpleKernel, SimpleKernel, SimpleKernel, SimpleKernel, StayKernel>>,
      <<SimpleKernel, SimpleKernel, SimpleKernel, SimpleKernel, SimpleKernel,
        SimpleKernel, SimpleKernel, SimpleKernel, SimpleKernel>> }

\* field-type maps handed to field_types(): label 1 east of the origin
FieldMap(t) ==
    [x \in 0..(2 * t) |-> [y \in 0..(2 * t) |-> IF x > t THEN 1 ELSE 0]]

FieldMaps == {FieldMap(t) : t \in 1..MaxTimeLimit}

\* barrier points: the origin, its east neighbour and one far point
BarrierPoints == {<<0, 0>>, <<1, 0>>, <<0, MaxTimeLimit + 1>>}

\* ------------------------------------------------------------------- state
VARIABLES
    builder,    \* DynamicProgramBuilder: its five fields
    called,     \* the setters called on the builder so far
    phase,      \* "builder", "failed", "built", "computed"
    buildRes,   \* what build() returned: "none", "Ok", an error or "panic"
    pool,       \* DynamicProgramPool: its variant and its dynamic programs
    cpos,       \* position of compute(): <<program, layer>> to compute next
    run,        \* the current generate_path call
    saved,      \* what save() did: None or Some(its result and the file)
    loaded,     \* what load() returned: None or Some(result)
    cor,        \* a CorDynamicProgram: None or Some(program)
    corSaved,   \* the file CorDynamicProgram::save wrote: None or Some(bytes)
    corLoaded,  \* what CorDynamicProgram::load returned: None or Some(result)
    cdp,        \* the CorDynamicProgram compute() runs on: None or Some(it)
    sec,        \* the sections of a CorrelatedMultiStepWalker: None or Some
    lcw,        \* what LandCoverWalker::new did: None or Some(its result)
    par,        \* the current compute_parallel call
    dataset,    \* a Dataset: None or Some(its data and coordinate type)
    rw,         \* the current rw_between call
    filt        \* the last filter call: None or Some(its filters and result)

\* the state outside builder, pool and walkers
coraux == <<cor, corSaved, corLoaded, cdp, sec, lcw>>

dsaux == <<dataset, rw, filt>>

aux == <<saved, loaded, cor, corSaved, corLoaded, cdp, sec, lcw, par, dataset, rw, filt>>

vars == <<builder, called, phase, buildRes, pool, cpos, run, saved, loaded,
          cor, corSaved, corLoaded, cdp, sec, lcw, par, dataset, rw, filt>>

NoPool == [kind |-> "None", dps |-> <<>>]
Idle == [pc |-> "idle"]
NoPar == [pc |-> "idle"]
NoRw == [pc |-> "idle"]

\* ----------------------------------------------------------------- builder
\* DynamicProgramBuilder::new()
NewBuilder ==
    [time_limit |-> None, dp_type |-> None, kernels |-> None,
     field_types |-> None, barriers |-> <<>>]

\* the cells add_rect_barrier pushes, x outer, y inner
RectCells(from, to) ==
    LET xs == RangeSeq(from[1], to[1])
        ys == RangeSeq(from[2], to[2])
    IN  [i \in 1..(Len(xs) * Len(ys)) |->
            <<xs[((i - 1) \div Len(ys)) + 1], ys[((i - 1) % Len(ys)) + 1]>>]

\* position in the kernel list a label maps to: a later pair with the same
\* label replaces an earlier one in the HashMap
FieldTypeMap(kl, label) ==
    (CHOOSE j \in 1..Len(kl) :
        /\ kl[j][1] = label
        /\ \A h \in (j + 1)..Len(kl) : kl[h][1] # label) - 1

HasLabel(kl, label) == \E j \in 1..Len(kl) : kl[j][1] = label

\* a barrier labelled with the last kernel of the caller instead
BarrierLabelShared(i) == i - 1

\* the label build() gives a barrier cell: the index of the empty kernel
BarrierLabel(i) == i

\* the barrier loop of build(): ft with the barrier cells relabelled to i,
\* or no map at all once a barrier lies out of range
RECURSIVE ApplyBarriers(_, _, _, _)
ApplyBarriers(ft, bs, tl, i) ==
    IF bs = <<>> THEN Some(ft)
    ELSE LET x == Head(bs)[1]
             y == Head(bs)[2]
         IN  IF x < -tl \/ x > tl \/ y < -tl \/ y > tl THEN None
             ELSE ApplyBarriers([ft EXCEPT ![tl + x][tl + y] = BarrierLabel(i)],
                                Tail(bs), tl, i)

\* the same checks with the kernels looked at before the type
MissingConfigurationKernelsFirst(b) ==
    IF ~IsSome(b.time_limit) THEN "NoTimeLimitSet"
    ELSE IF ~IsSome(b.kernels) THEN "NoKernelsSet"
    ELSE IF ~IsSome(b.dp_type) THEN "NoTypeSet"
    ELSE "none"

\* the checks of build() for missing configuration, in the order of the code,
\* "none" when all is set
MissingConfiguration(b) ==
    IF ~IsSome(b.time_limit) THEN "NoTimeLimitSet"
    ELSE IF ~IsSome(b.dp_type) THEN "NoTypeSet"
    ELSE IF ~IsSome(b.kernels) THEN "NoKernelsSet"
    ELSE "none"

\* build(): the result and, on success, the dynamic program
Build(b) ==
    IF MissingConfiguration(b) # "none" THEN [res |-> MissingConfiguration(b)]
    ELSE
      LET tl == Unwrap(b.time_limit)
          n == 2 * tl + 1
          ft0 == IF IsSome(b.field_types) THEN Unwrap(b.field_types)
                 ELSE Matrix(n, 0)
          kl == Unwrap(b.kernels)
          i == Len(kl)
          kernels_mapped == [j \in 1..Len(kl) |-> kl[j][2]]
          indexPanics ==
              \/ Rows(ft0) < n
              \/ Cols(ft0) < n
              \/ \E x, y \in 0..(n - 1) : ~HasLabel(kl, ft0[x][y])
          ft1 == [x \in DOMAIN ft0 |-> [y \in DOMAIN ft0[x] |->
                    IF x < n /\ y < n THEN FieldTypeMap(kl, ft0[x][y])
                    ELSE ft0[x][y]]]
          ft2 == ApplyBarriers(ft1, b.barriers, tl, i)
      IN  IF indexPanics THEN [res |-> "panic"]
          ELSE IF ~IsSome(ft2) THEN [res |-> "BarrierOutOfRange"]
          ELSE [res |-> "Ok",
                dp |-> [table |-> [t \in 0..tl |-> Matrix(n, 0)],
                        time_limit |-> tl,
                        kernels |-> Append(kernels_mapped, EmptyKernel),
                        field_types |-> Unwrap(ft2)]]

TimeLimitSetter ==
    /\ phase = "builder"
    /\ \E n \in 1..MaxTimeLimit :
          builder' = [builder EXCEPT !.time_limit = Some(n)]
    /\ called' = called \cup {"time_limit"}
    /\ UNCHANGED <<phase, buildRes, pool, cpos, run>>
    /\ UNCHANGED aux

SimpleSetter ==
    /\ phase = "builder"
    /\ builder' = [builder EXCEPT !.dp_type = Some("Simple")]
    /\ called' = called \cup {"type"}
    /\ UNCHANGED <<phase, buildRes, pool, cpos, run>>
    /\ UNCHANGED aux

KernelsSetter ==
    /\ phase = "builder"
    /\ \E kl \in KernelLists :
          builder' = [builder EXCEPT !.kernels = Some(kl)]
    /\ called' = called \cup {"kernels"}
    /\ UNCHANGED <<phase, buildRes, pool, cpos, run>>
    /\ UNCHANGED aux

FieldTypesSetter ==
    /\ phase = "builder"
    /\ \E m \in FieldMaps :
          builder' = [builder EXCEPT !.field_types = Some(m)]
    /\ called' = called \cup {"field_types"}
    /\ UNCHANGED <<phase, buildRes, pool, cpos, run>>
    /\ UNCHANGED aux

AddSingleBarrier ==
    /\ phase = "builder"
    /\ Len(builder.barriers) < MaxBarriers
    /\ \E at \in BarrierPoints :
          builder' = [builder EXCEPT !.barriers = Append(@, at)]
    /\ called' = called \cup {"barriers"}
    /\ UNCHANGED <<phase, buildRes, pool, cpos, run>>
    /\ UNCHANGED aux

AddRectBarrier ==
    /\ phase = "builder"
    /\ \E from, to \in BarrierPoints :
          /\ from[1] <= to[1] /\ from[2] <= to[2]
          /\ Len(builder.barriers) + Len(RectCells(from, to)) <= MaxBarriers
          /\ builder' = [builder EXCEPT !.barriers = @ \o RectCells(from, to)]
    /\ called' = called \cup {"barriers"}
    /\ UNCHANGED <<phase, buildRes, pool, cpos, run>>
    /\ UNCHANGED aux

BuildCall ==
    /\ phase = "builder"
    /\ LET r == Build(builder)
       IN  /\ buildRes' = r.res
           /\ IF r.res = "Ok"
              THEN /\ phase' = "built"
                   /\ pool' = [kind |-> "Single", dps |-> <<r.dp>>]
                   /\ cpos' = <<1, 1>>
              ELSE /\ phase' = "failed"
                   /\ UNCHANGED <<pool, cpos>>
    /\ UNCHANGED <<builder, called, run>>
    /\ UNCHANGED aux

\* a caller builds one dynamic program per kernel of a family, each with
\* kernel(k) on the same builder settings, and wraps them as Multiple
BuildFamily ==
    /\ phase = "builder"
    /\ ~IsSome(builder.kernels)
    /\ \E fam \in KernelFamilies :
          LET r == [d \in 1..Len(fam) |->
                      Build([builder EXCEPT !.kernels = Some(<<<<0, fam[d]>>>>)])]
          IN  /\ buildRes' = r[1].res
              /\ IF r[1].res = "Ok"
                 THEN /\ phase' = "built"
                      /\ pool' = [kind |-> "Multiple",
                                  dps |-> [d \in 1..Len(fam) |-> r[d].dp]]
                      /\ cpos' = <<1, 1>>
                 ELSE /\ phase' = "failed"
                      /\ UNCHANGED <<pool, cpos>>
    /\ called' = called \cup {"kernels"}
    /\ UNCHANGED <<builder, run>>
    /\ UNCHANGED aux

\* ------------------------------------------------------- dynamic program
\* DynamicProgram::limits
Limits(dp) == <<-dp.time_limit, dp.time_limit>>

InTable(dp, x, y, t) ==
    /\ t \in DOMAIN dp.table
    /\ (dp.time_limit + x) \in DOMAIN dp.table[t]
    /\ (dp.time_limit + y) \in DOMAIN dp.table[t][dp.time_limit + x]

\* DynamicProgram::at: an index outside the table panics
DpAt(dp, x, y, t) ==
    IF InTable(dp, x, y, t)
    THEN dp.table[t][dp.time_limit + x][dp.time_limit + y]
    ELSE PANIC

\* DynamicProgram::at_or
DpAtOr(dp, x, y, t, default) ==
    LET limit_neg == Limits(dp)[1]
        limit_pos == Limits(dp)[2]
    IN  IF x >= limit_neg /\ x <= limit_pos /\ y >= limit_neg /\ y <= limit_pos
        THEN IF t \in DOMAIN dp.table
             THEN dp.table[t][dp.time_limit + x][dp.time_limit + y]
             ELSE PANIC
        ELSE default

\* DynamicProgram::set
DpSet(dp, x, y, t, val) ==
    [dp EXCEPT !.table[t][dp.time_limit + x][dp.time_limit + y] = val]

\* DynamicProgram::field_type_at
FieldTypeAt(dp, x, y) == dp.field_types[dp.time_limit + x][dp.time_limit + y]

\* the sum over i in lo..hi of f(i), skipping what lies outside the limits
SumInside(lo, hi, limit_neg, limit_pos, f(_)) ==
    SumSeq([n \in 1..(hi - lo + 1) |->
        LET i == lo + n - 1
        IN  IF i < limit_neg \/ i > limit_pos THEN 0 ELSE f(i)])

\* the offset i - x itself, not inverted
KernelCoordinateOffset(at, from) == from - at

\* kernel coordinates are the inverted offset: kernel_x = x - i
KernelCoordinate(at, from) == at - from

\* DynamicProgram::apply_kernel_at: the value it stores at (x, y, t)
ApplyKernelAt(dp, x, y, t) ==
    LET field_type == FieldTypeAt(dp, x, y)
        kernel == dp.kernels[field_type + 1]
        ks == KernelSize(kernel) \div 2
        limit_neg == Limits(dp)[1]
        limit_pos == Limits(dp)[2]
    IN  SumInside(x - ks, x + ks, limit_neg, limit_pos, LAMBDA i :
          SumInside(y - ks, y + ks, limit_neg, limit_pos, LAMBDA j :
            DpAt(dp, i, j, t - 1)
              * KernelAt(kernel, KernelCoordinate(x, i), KernelCoordinate(y, j))))

\* the unit of mass put in a corner of the lattice
StartLayerCorner(dp) == DpSet(dp, dp.time_limit, dp.time_limit, 0, 1)

\* set(0, 0, 0, 1.0): the unit of mass at the origin of layer 0
StartLayer(dp) == DpSet(dp, 0, 0, 0, 1)

\* one pass of the loop over t of compute(): layer t from layer t - 1;
\* set(0, 0, 0, 1.0) precedes the first pass
ComputeLayer(dp, t) ==
    LET tl == dp.time_limit
        d0 == IF t = 1 THEN StartLayer(dp) ELSE dp
    IN  [d0 EXCEPT !.table[t] =
            [x \in 0..(2 * tl) |-> [y \in 0..(2 * tl) |->
                ApplyKernelAt(d0, x - tl, y - tl, t)]]]

\* compute() on the programs of the pool, one after the other
ComputeStep ==
    /\ phase = "built"
    /\ LET d == cpos[1]
           t == cpos[2]
           dp == pool.dps[d]
       IN  /\ pool' = [pool EXCEPT !.dps[d] = ComputeLayer(dp, t)]
           /\ IF t < dp.time_limit THEN cpos' = <<d, t + 1>> /\ phase' = phase
              ELSE IF d < Len(pool.dps) THEN cpos' = <<d + 1, 1>> /\ phase' = phase
              ELSE cpos' = <<0, 0>> /\ phase' = "computed"
    /\ UNCHANGED <<builder, called, buildRes, run>>
    /\ UNCHANGED aux

\* -------------------------------------------------------------------- pool
\* file layer_t after its 16-byte header holds, for each variant, the layer
\* in row-major order: the number of its values and its k-th value
LayerFileLen(pl) ==
    LET n == 2 * pl.dps[1].time_limit + 1
    IN  Len(pl.dps) * n * n

LayerFileAt(pl, t, k) ==
    LET n == 2 * pl.dps[1].time_limit + 1
    IN  pl.dps[(k \div (n * n)) + 1].table[t][(k % (n * n)) \div n][k % n]

\* DynamicProgramDiskVec::try_new: len counts the layer files, time_limit
\* is the first header word of layer_0
DiskVec(pl) ==
    [len |-> pl.dps[1].time_limit + 1, time_limit |-> pl.dps[1].time_limit]

\* DynamicProgramDiskVec::try_at: None, Some(value), or Some(PANIC) when the
\* final index is out of bounds
DiskTryAt(pl, x, y, t, variant) ==
    LET dv == DiskVec(pl)
        tl == dv.time_limit
        n == 2 * tl + 1
        skipped == variant * (4 * tl + 2)
    IN  IF t >= tl THEN None
        ELSE IF variant >= dv.len THEN None
        ELSE IF skipped + n * n > LayerFileLen(pl) THEN None
        ELSE IF tl + x < 0 \/ tl + x >= n \/ tl + y < 0 \/ tl + y >= n
             THEN Some(PANIC)
        ELSE Some(LayerFileAt(pl, t, skipped + (tl + x) * n + (tl + y)))

\* DynamicProgramDiskVec::at
DiskAt(pl, x, y, t, variant) ==
    LET v == DiskTryAt(pl, x, y, t, variant)
    IN  IF IsSome(v) THEN Unwrap(v) ELSE PANIC

\* DynamicProgramDiskVec::at_or
DiskAtOr(pl, x, y, t, variant, default) ==
    LET v == DiskTryAt(pl, x, y, t, variant)
    IN  IF IsSome(v) THEN Unwrap(v) ELSE default

\* DynamicProgramDiskVec::len / Vec::len
PoolLen(pl) ==
    IF pl.kind = "MultipleFromDisk" THEN DiskVec(pl).len ELSE Len(pl.dps)

\* DynamicProgramPool::at
PoolAt(pl, x, y, t, variant) ==
    CASE pl.kind = "Single" -> DpAt(pl.dps[1], x, y, t)
      [] pl.kind = "Multiple" ->
            IF variant < Len(pl.dps) THEN DpAt(pl.dps[variant + 1], x, y, t)
            ELSE PANIC
      [] pl.kind = "MultipleFromDisk" -> DiskAt(pl, x, y, t, variant)

\* DynamicProgramPool::at_or
PoolAtOr(pl, x, y, t, variant, default) ==
    CASE pl.kind = "Single" -> DpAtOr(pl.dps[1], x, y, t, default)
      [] pl.kind = "Multiple" ->
            IF variant < Len(pl.dps)
            THEN DpAtOr(pl.dps[variant + 1], x, y, t, default)
            ELSE PANIC
      [] pl.kind = "MultipleFromDisk" ->
            DiskAtOr(pl, x, y, t, variant, default)

\* the computed programs of a Multiple pool are written to a layered store
\* and opened again as a DynamicProgramDiskVec
OpenDiskVec ==
    /\ phase = "computed"
    /\ run.pc = "idle"
    /\ pool.kind = "Multiple"
    /\ pool' = [pool EXCEPT !.kind = "MultipleFromDisk"]
    /\ UNCHANGED <<builder, called, phase, buildRes, cpos, run>>
    /\ UNCHANGED aux

\* ----------------------------------------------------------------- walkers
\* LandCoverWalker::new: the walker, or None when an index panics
LandCoverNew(max_step_sizes, field_types, kl) ==
    LET c == Cols(field_types)
        indexPanics ==
            \/ Rows(field_types) = 0
            \/ \E x, y \in 0..(2 * c) :
                  \/ x \notin DOMAIN field_types
                  \/ y \notin DOMAIN field_types[x]
                  \/ ~HasLabel(kl, field_types[x][y])
    IN  IF indexPanics THEN None
        ELSE Some([kind |-> "LandCover",
                   max_step_sizes |-> max_step_sizes,
                   field_types |->
                      [x \in DOMAIN field_types |-> [y \in DOMAIN field_types[x] |->
                          IF x <= 2 * c /\ y <= 2 * c
                          THEN FieldTypeMap(kl, field_types[x][y])
                          ELSE field_types[x][y]]],
                   kernels |-> [j \in 1..Len(kl) |-> kl[j][2]]])

LandCoverWalkers ==
    LET made == {LandCoverNew([l \in {0, 1} |-> m], ft, kl) :
                    m \in 1..MaxStepSize, ft \in FieldMaps, kl \in KernelLists}
    IN  {Unwrap(w) : w \in made \ {None}}

\* the kernel a caller gives a scalar walker: the kernel the program was
\* built with
WalkerKernels(pl) == {pl.dps[1].kernels[1]}

\* the kernels a caller gives a directional walker: the kernels the programs
\* of the pool were built with
WalkerFamily(pl) == [d \in 1..Len(pl.dps) |-> pl.dps[d].kernels[1]]

\* a caller makes a LandCoverWalker from the map and the kernels it gave the
\* builder
LandCoverNewCall ==
    /\ phase = "builder"
    /\ IsSome(builder.field_types)
    /\ IsSome(builder.kernels)
    /\ lcw = None
    /\ \E m \in 1..MaxStepSize :
         LET made == LandCoverNew([l \in {0, 1} |-> m], Unwrap(builder.field_types),
                                  Unwrap(builder.kernels))
         IN  lcw' = Some(IF made = None THEN [res |-> "panic"]
                         ELSE [res |-> "Ok", walker |-> Unwrap(made)])
    /\ UNCHANGED <<builder, called, phase, buildRes, pool, cpos, run, saved, loaded,
                   cor, corSaved, corLoaded, cdp, sec, par, dsaux>>

\* the walkers a caller can construct for a pool
Walkers(pl) ==
    {[kind |-> "Standard", kernel |-> k] : k \in WalkerKernels(pl)}
    \cup {[kind |-> "MultiStep", max_step_size |-> m, kernel |-> k] :
            m \in 1..MaxStepSize, k \in WalkerKernels(pl)}
    \cup LandCoverWalkers
    \cup {[kind |-> "Correlated", kernels |-> WalkerFamily(pl)]}
    \cup {[kind |-> "CorrelatedFixedStep", step_size |-> m,
           kernels |-> WalkerFamily(pl)] : m \in 1..MaxStepSize}
    \cup {[kind |-> "CorrelatedMultiStep", max_step_size |-> m,
           kernels |-> WalkerFamily(pl), directions_per_axis |-> d] :
            m \in 1..MaxSectionStepSize, d \in {1, 3}}

ScalarKinds == {"Standard", "MultiStep", "LandCover"}

\* candidate moves, in the order the code lists them
Neighbors == <<<<0, 0>>, <<-1, 0>>, <<0, -1>>, <<1, 0>>, <<0, 1>>>>

BoxMoves(m) ==
    [n \in 1..((2 * m + 1) * (2 * m + 1)) |->
        <<((n - 1) \div (2 * m + 1)) - m, ((n - 1) % (2 * m + 1)) - m>>]

\* the fields at most step_size away, the site itself among them
PossibleFieldsWithin(step_size) ==
    SelectSeq(BoxMoves(step_size),
              LAMBDA f : Abs(f[1]) + Abs(f[2]) <= step_size)

\* CorrelatedFixedStepWalker: possible_fields
PossibleFields(step_size) ==
    SelectSeq(BoxMoves(step_size),
              LAMBDA f : Abs(f[1]) + Abs(f[2]) = step_size)

\* the first step of CorrelatedMultiStepWalker, by direction 0..8
FirstMoves == [n \in 1..9 |-> <<((n - 1) % 3) - 1, ((n - 1) \div 3) - 1>>]

\* CorrelatedMultiStepWalker: the sections <<start, end>> (end exclusive)
Sections(max_step_size, directions_per_axis) ==
    LET section_size == (2 * max_step_size + 1) \div directions_per_axis
        remainder == (2 * max_step_size + 1) % directions_per_axis
        middle == directions_per_axis \div 2
    IN  [k \in 1..directions_per_axis |->
            <<-max_step_size + (k - 1) * section_size,
              -max_step_size + k * section_size
                + (IF remainder # 0 /\ k = middle + 1 THEN remainder ELSE 0)>>]

\* sections.iter().position(|section| section.contains(&v)), PANIC for None
Position(sections, v) ==
    LET hits == {k \in 1..Len(sections) :
                    sections[k][1] <= v /\ v < sections[k][2]}
    IN  IF hits = {} THEN PANIC
        ELSE (CHOOSE k \in hits : \A h \in hits : k <= h) - 1

\* CorrelatedWalker: the variant read for a last direction
CorrelatedVariant(last_direction) ==
    CASE last_direction = 0 -> 4
      [] last_direction = 1 -> 1
      [] last_direction = 2 -> 0
      [] last_direction = 3 -> 3
      [] last_direction = 4 -> 2

\* the bounds of the loop over t, by walker
LoopFirst(w, time_steps) ==
    IF w.kind = "Correlated" THEN time_steps - 2 ELSE time_steps - 1

LoopLast(w) == IF w.kind = "CorrelatedFixedStep" THEN 2 ELSE 1

\* path.reverse(); path.insert(0, (x, y))
FinishPath(path, x, y) == <<<<x, y>>>> \o Reverse(path)

\* a generate_path call that has returned: an error, a panic, or Ok(walk)
Returned(w, to_x, to_y, time_steps, res, walk) ==
    [pc |-> "done", walker |-> w, to_x |-> to_x, to_y |-> to_y,
     time_steps |-> time_steps, x |-> 0, y |-> 0, t |-> 0,
     path |-> walk, last_direction |-> 0, res |-> res]

\* generate_path about to enter its loop over t, or returning at once when
\* the loop has no pass
EnterLoop(w, to_x, to_y, time_steps, x, y, path, last_direction) ==
    IF LoopFirst(w, time_steps) < LoopLast(w)
    THEN Returned(w, to_x, to_y, time_steps, "Ok", FinishPath(path, x, y))
    ELSE [pc |-> "loop", walker |-> w, to_x |-> to_x, to_y |-> to_y,
          time_steps |-> time_steps, x |-> x, y |-> y,
          t |-> LoopFirst(w, time_steps),
          path |-> path, last_direction |-> last_direction, res |-> "none"]

\* the check "does any path exist" of the directional walkers: "panic",
\* "NoPathExists" or "pass"
ExistsCheckEach(pl, to_x, to_y, time_steps) ==
    LET bad == {v \in 0..(PoolLen(pl) - 1) :
                    PoolAt(pl, to_x, to_y, time_steps, v) \in {PANIC, 0}}
    IN  IF bad = {} THEN "pass"
        ELSE LET v == CHOOSE v \in bad : \A u \in bad : v <= u
             IN  IF PoolAt(pl, to_x, to_y, time_steps, v) = PANIC THEN "panic"
                 ELSE "NoPathExists"

ExistsCheckAny(pl, to_x, to_y, time_steps) ==
    LET stop == {v \in 0..(PoolLen(pl) - 1) :
                    PoolAt(pl, to_x, to_y, time_steps, v) # 0}
    IN  IF stop = {} THEN "NoPathExists"
        ELSE LET v == CHOOSE v \in stop : \A u \in stop : v <= u
             IN  IF PoolAt(pl, to_x, to_y, time_steps, v) = PANIC THEN "panic"
                 ELSE "pass"

\* a test that lets an in-memory Vec of programs pass as well
IsSingleOrVec(pl) == pl.kind \in {"Single", "Multiple"}

\* the pool is DynamicProgramPool::Single
IsSingle(pl) == pl.kind = "Single"

\* the mass of the target one layer earlier
TargetMassBefore(dp, to_x, to_y, time_steps) ==
    DpAt(dp, to_x, to_y, time_steps - 1)

\* the mass the scalar walkers test before sampling: dp.at(to_x, to_y, time_steps)
TargetMass(dp, to_x, to_y, time_steps) == DpAt(dp, to_x, to_y, time_steps)

\* generate_path up to the loop over t: the runs it can be in afterwards
StartScalar(w, to_x, to_y, time_steps) ==
    IF ~IsSingle(pool)
    THEN {Returned(w, to_x, to_y, time_steps, "RequiresSingleDynamicProgram", <<>>)}
    ELSE LET p == TargetMass(pool.dps[1], to_x, to_y, time_steps)
         IN  IF p = PANIC
             THEN {Returned(w, to_x, to_y, time_steps, "panic", <<>>)}
             ELSE IF p = 0
             THEN {Returned(w, to_x, to_y, time_steps, "NoPathExists", <<>>)}
             ELSE {EnterLoop(w, to_x, to_y, time_steps, to_x, to_y, <<>>, 0)}

FirstDirections(w) ==
    CASE w.kind = "Correlated" -> 0..3
      [] w.kind = "CorrelatedFixedStep" ->
            0..(Len(PossibleFields(w.step_size)) - 1)
      [] w.kind = "CorrelatedMultiStep" -> 0..8

FirstMove(w, direction) ==
    CASE w.kind = "Correlated" -> Neighbors[direction + 1]
      [] w.kind = "CorrelatedFixedStep" ->
            PossibleFields(w.step_size)[direction + 1]
      [] w.kind = "CorrelatedMultiStep" -> FirstMoves[direction + 1]

StartDirectional(w, to_x, to_y, time_steps) ==
    IF IsSingle(pool)
    THEN {Returned(w, to_x, to_y, time_steps,
                   "RequiresMultipleDynamicPrograms", <<>>)}
    ELSE LET check == IF w.kind = "Correlated"
                      THEN ExistsCheckEach(pool, to_x, to_y, time_steps)
                      ELSE ExistsCheckAny(pool, to_x, to_y, time_steps)
         IN  IF check # "pass"
             THEN {Returned(w, to_x, to_y, time_steps, check, <<>>)}
             ELSE {EnterLoop(w, to_x, to_y, time_steps,
                             to_x + FirstMove(w, direction)[1],
                             to_y + FirstMove(w, direction)[2],
                             <<<<to_x, to_y>>>>, direction) :
                      direction \in FirstDirections(w)}

GeneratePath ==
    /\ phase = "computed"
    /\ run.pc = "idle"
    /\ LET tl == pool.dps[1].time_limit
       IN  \E w \in Walkers(pool), to_x \in (-tl)..tl, to_y \in (-tl)..tl,
              time_steps \in 1..tl :
              run' \in IF w.kind \in ScalarKinds
                       THEN StartScalar(w, to_x, to_y, time_steps)
                       ELSE StartDirectional(w, to_x, to_y, time_steps)
    /\ UNCHANGED <<builder, called, phase, buildRes, pool, cpos>>
    /\ UNCHANGED aux

\* the moves one pass of the loop chooses among
Candidates(w, lc) ==
    CASE w.kind \in {"Standard", "Correlated"} -> Neighbors
      [] w.kind \in {"MultiStep", "CorrelatedMultiStep"} -> BoxMoves(w.max_step_size)
      [] w.kind = "CorrelatedFixedStep" -> PossibleFields(w.step_size)
      [] w.kind = "LandCover" -> BoxMoves(w.max_step_sizes[lc])

\* the variant of the pool one pass reads
Variant(w, last_direction) ==
    CASE w.kind \in ScalarKinds -> 0
      [] w.kind = "Correlated" -> CorrelatedVariant(last_direction)
      [] OTHER -> last_direction

\* LandCoverWalker: current_land_cover, PANIC when the index is out of bounds
LandCoverAt(w, x, y) ==
    LET time_limit == Rows(w.field_types) \div 2
    IN  IF /\ (time_limit + x) \in DOMAIN w.field_types
           /\ (time_limit + y) \in DOMAIN w.field_types[time_limit + x]
        THEN w.field_types[time_limit + x][time_limit + y]
        ELSE PANIC

\* p_a_b of a move: the walker's kernel read at the move, LandCoverWalker
\* reads it at the opposite offset
MoveWeight(w, kernel, mov) ==
    IF w.kind = "LandCover" THEN KernelAt(kernel, -mov[1], -mov[2])
    ELSE KernelAt(kernel, mov[1], mov[2])

\* last_direction after a move chosen as the direction-th candidate
NextDirection(w, direction, mov) ==
    CASE w.kind \in ScalarKinds -> 0
      [] w.kind \in {"Correlated", "CorrelatedFixedStep"} -> direction
      [] w.kind = "CorrelatedMultiStep" ->
            LET sections == Sections(w.max_step_size, w.directions_per_axis)
                row == Position(sections, mov[1])
                column == Position(sections, mov[2])
            IN  IF row = PANIC \/ column = PANIC THEN PANIC
                ELSE row + column * w.directions_per_axis

\* a weight that leaves out the mass of the predecessor
NumeratorKernelOnly(p_a_b, p_b) == p_a_b

\* the numerator p_a_b * p_b of a weight
Numerator(p_a_b, p_b) == p_a_b * p_b

\* WeightedIndex::new on weights numerator / denominator: the results it can
\* have besides a sampled index
DistributionErrors(numerators, denominator) ==
    IF denominator = 0
    THEN \* every weight is NaN or infinite
         IF \A n \in 1..Len(numerators) : numerators[n] > 0
         THEN {"panic"}
         ELSE {"RandomDistributionError", "panic"}
    ELSE IF \A n \in 1..Len(numerators) : numerators[n] = 0
    THEN {"InconsistentPath"}
    ELSE {}

\* one pass of the loop over t of generate_path: the runs it can lead to
StepOutcomes(r) ==
    LET w == r.walker
        x == r.x
        y == r.y
        t == r.t
        path == Append(r.path, <<x, y>>)
        fail(res) == Returned(w, r.to_x, r.to_y, r.time_steps, res, <<>>)
        lc == IF w.kind = "LandCover" THEN LandCoverAt(w, x, y) ELSE 0
        variant == Variant(w, r.last_direction)
        kernelPanics ==
            \/ lc = PANIC
            \/ w.kind = "LandCover" /\ lc \notin DOMAIN w.max_step_sizes
            \/ w.kind \notin {"Standard", "MultiStep"}
                 /\ (IF w.kind = "LandCover" THEN lc ELSE variant) + 1
                       \notin DOMAIN w.kernels
    IN  IF kernelPanics THEN {fail("panic")}
        ELSE
          LET kernel == CASE w.kind \in {"Standard", "MultiStep"} -> w.kernel
                          [] w.kind = "LandCover" -> w.kernels[lc + 1]
                          [] OTHER -> w.kernels[variant + 1]
              movs == Candidates(w, lc)
              p_a == PoolAtOr(pool, x, y, t, variant, 0)
              p_b == [n \in 1..Len(movs) |->
                        PoolAtOr(pool, x + movs[n][1], y + movs[n][2],
                                 t - 1, variant, 0)]
              numerators == [n \in 1..Len(movs) |->
                                Numerator(MoveWeight(w, kernel, movs[n]), p_b[n])]
              errors == DistributionErrors(numerators, p_a)
              moved(n) ==
                  LET nx == x + movs[n][1]
                      ny == y + movs[n][2]
                      nd == NextDirection(w, n - 1, movs[n])
                  IN  IF nd = PANIC THEN fail("panic")
                      ELSE IF t - 1 < LoopLast(w)
                      THEN Returned(w, r.to_x, r.to_y, r.time_steps, "Ok",
                                    FinishPath(path, nx, ny))
                      ELSE [r EXCEPT !.x = nx, !.y = ny, !.t = t - 1,
                                     !.path = path, !.last_direction = nd]
          IN  IF p_a = PANIC \/ \E n \in 1..Len(movs) : p_b[n] = PANIC
              THEN {fail("panic")}
              ELSE IF errors # {} THEN {fail(res) : res \in errors}
              ELSE {moved(n) : n \in {m \in 1..Len(movs) : numerators[m] > 0}}

WalkStep ==
    /\ run.pc = "loop"
    /\ run' \in StepOutcomes(run)
    /\ UNCHANGED <<builder, called, phase, buildRes, pool, cpos>>
    /\ UNCHANGED aux

\* ------------------------------------------------------------- save / load
\* bytes of a u64 or an f64, and values of a byte
WordBytes == 8
ByteValues == 256

\* to_le_bytes: an f64 is modelled by a natural number and its eight bytes by
\* the little-endian bytes of that number
RECURSIVE ToLeBytesFrom(_, _)
ToLeBytesFrom(v, n) ==
    IF n = 0 THEN <<>>
    ELSE <<v % ByteValues>> \o ToLeBytesFrom(v \div ByteValues, n - 1)

ToLeBytes(v) == ToLeBytesFrom(v, WordBytes)

\* from_le_bytes
RECURSIVE FromLeBytes(_)
FromLeBytes(b) ==
    IF b = <<>> THEN 0 ELSE Head(b) + ByteValues * FromLeBytes(Tail(b))

\* the values DynamicProgram::save writes, in order: the time limit, the table
\* by t, x, y, the field types by x, y over the lattice
SavedWord(dp, k) ==
    LET tl == dp.time_limit
        n  == 2 * tl + 1
        nt == (tl + 1) * n * n
    IN  IF k = 0 THEN tl
        ELSE IF k <= nt
        THEN DpAt(dp, (((k - 1) % (n * n)) \div n) - tl, ((k - 1) % n) - tl,
                  (k - 1) \div (n * n))
        ELSE FieldTypeAt(dp, ((k - 1 - nt) \div n) - tl, ((k - 1 - nt) % n) - tl)

\* DynamicProgram::save: the bytes of the file
Save(dp) ==
    LET n     == 2 * dp.time_limit + 1
        words == 1 + (dp.time_limit + 1) * n * n + n * n
    IN  [i \in 1..(WordBytes * words) |->
            ToLeBytes(SavedWord(dp, (i - 1) \div WordBytes))[((i - 1) % WordBytes) + 1]]

\* the k-th read_exact of eight bytes
ReadWord(file, k) ==
    FromLeBytes(SubSeq(file, WordBytes * k + 1, WordBytes * k + WordBytes))

\* DynamicProgram::load: Err when a read_exact runs out of bytes, else the
\* program built with the empty kernel and filled from the file
Load(file) ==
    IF Len(file) < WordBytes THEN [res |-> "Err"]
    ELSE
      LET tl == ReadWord(file, 0)
          n  == 2 * tl + 1
          nt == (tl + 1) * n * n
          built == Build([NewBuilder EXCEPT
                            !.dp_type = Some("Simple"),
                            !.time_limit = Some(tl),
                            !.kernels = Some(<<<<0, EmptyKernel>>>>)]).dp
      IN  IF Len(file) < WordBytes * (1 + nt + n * n) THEN [res |-> "Err"]
          ELSE [res |-> "Ok",
                dp |-> [built EXCEPT
                    !.table = [t \in 0..tl |-> [x \in 0..(n - 1) |->
                        [y \in 0..(n - 1) |->
                            ReadWord(file, 1 + t * n * n + x * n + y)]]],
                    !.field_types = [x \in 0..(n - 1) |-> [y \in 0..(n - 1) |->
                            ReadWord(file, 1 + nt + x * n + y)]]]]

\* PartialEq for DynamicProgram
DpEq(a, b) ==
    /\ a.time_limit = b.time_limit
    /\ a.table = b.table
    /\ a.field_types = b.field_types

\* save() on the pool after compute(): try_unwrap().unwrap() panics on a pool
\* that is not Single
SaveCall ==
    /\ phase = "computed"
    /\ saved = None
    /\ saved' = IF pool.kind = "Single"
                THEN Some([res |-> "Ok", file |-> Save(pool.dps[1])])
                ELSE Some([res |-> "panic"])
    /\ UNCHANGED <<builder, called, phase, buildRes, pool, cpos, run, loaded>>
    /\ UNCHANGED <<coraux, par, dsaux>>

\* DynamicProgram::load on the file saved
LoadCall ==
    /\ IsSome(saved)
    /\ Unwrap(saved).res = "Ok"
    /\ loaded = None
    /\ loaded' = Some(Load(Unwrap(saved).file))
    /\ UNCHANGED <<builder, called, phase, buildRes, pool, cpos, run, saved>>
    /\ UNCHANGED <<coraux, par, dsaux>>

\* ------------------------------------- the directional program: save, load
\* CorDynamicProgram keeps table[t][d][x][y]; its fields are public, a caller
\* builds it with any number of directions. The kernels and the direction
\* kernel are neither saved nor compared and are left out.

MaxCorTimeLimit == 1
MaxCorSets == 1
\* the number of directions load() allocates
LoadDirections == 16
\* the numbers of directions the programs are made with
Directions == {1, 2, LoadDirections + 1}
\* the values stored in a cell: one and more than one byte long
CellValues == {1, 300}

\* the struct literal: a zero table of d directions, a zero field-type map
CorNew(tl, d) ==
    [time_limit |-> tl,
     num_directions |-> d,
     table |-> [t \in 0..tl |-> [di \in 0..(d - 1) |-> Matrix(2 * tl + 1, 0)]],
     field_types |-> Matrix(2 * tl + 1, 0)]

\* CorDynamicProgram::at
CorAt(dp, x, y, d, t) == dp.table[t][d][dp.time_limit + x][dp.time_limit + y]

\* CorDynamicProgram::set
CorSet(dp, x, y, d, t, val) ==
    [dp EXCEPT !.table[t][d][dp.time_limit + x][dp.time_limit + y] = val]

\* the k-th u64 or f64 CorDynamicProgram::save writes: the time limit, the
\* number of directions, the table by t, d, x, y and the field types by x, y
CorSavedWord(dp, k) ==
    LET tl == dp.time_limit
        n  == 2 * tl + 1
        nd == dp.num_directions
        nt == (tl + 1) * nd * n * n
        c  == k - 2
    IN  IF k = 0 THEN tl
        ELSE IF k = 1 THEN nd
        ELSE IF c < nt
        THEN CorAt(dp, ((c % (n * n)) \div n) - tl, (c % n) - tl,
                   (c \div (n * n)) % nd, c \div (nd * n * n))
        ELSE FieldTypeAt(dp, ((c - nt) \div n) - tl, ((c - nt) % n) - tl)

\* CorDynamicProgram::save: the bytes of the file
CorSave(dp) ==
    LET n     == 2 * dp.time_limit + 1
        words == 2 + (dp.time_limit + 1) * dp.num_directions * n * n + n * n
    IN  [i \in 1..(WordBytes * words) |->
            ToLeBytes(CorSavedWord(dp, (i - 1) \div WordBytes))[((i - 1) % WordBytes) + 1]]

\* CorDynamicProgram::load: the table is allocated with LoadDirections
\* directions and num_directions is set to LoadDirections, whatever the file
\* says; the loop over the file's directions then sets table[t][d], which is
\* out of bounds from d = LoadDirections on
CorLoad(file) ==
    IF Len(file) < 2 * WordBytes THEN [res |-> "Err"]
    ELSE
      LET tl == ReadWord(file, 0)
          nd == ReadWord(file, 1)
          n  == 2 * tl + 1
          nt == (tl + 1) * nd * n * n
      IN  IF nd > LoadDirections
          THEN IF Len(file) < WordBytes * (2 + LoadDirections * n * n + 1)
               THEN [res |-> "Err"]
               ELSE [res |-> "panic"]
          ELSE IF Len(file) < WordBytes * (2 + nt + n * n) THEN [res |-> "Err"]
          ELSE [res |-> "Ok",
                dp |-> [time_limit |-> tl,
                        num_directions |-> LoadDirections,
                        table |-> [t \in 0..tl |-> [d \in 0..(LoadDirections - 1) |->
                            [x \in 0..(n - 1) |-> [y \in 0..(n - 1) |->
                                IF d < nd
                                THEN ReadWord(file, 2 + t * nd * n * n + d * n * n + x * n + y)
                                ELSE 0]]]],
                        field_types |-> [x \in 0..(n - 1) |-> [y \in 0..(n - 1) |->
                            ReadWord(file, 2 + nt + x * n + y)]]]]

\* the cells of a directional program that are not zero
CorNonZero(dp) ==
    {c \in (0..dp.time_limit) \X (0..(dp.num_directions - 1))
           \X (0..(2 * dp.time_limit)) \X (0..(2 * dp.time_limit)) :
        dp.table[c[1]][c[2]][c[3]][c[4]] # 0}

\* a caller makes a directional program
CorNewCall ==
    /\ cor = None
    /\ \E tl \in 1..MaxCorTimeLimit, d \in Directions : cor' = Some(CorNew(tl, d))
    /\ UNCHANGED <<builder, called, phase, buildRes, pool, cpos, run, saved, loaded,
                   corSaved, corLoaded, cdp, sec, lcw, par, dsaux>>

\* set() on a cell of the table
CorSetCall ==
    /\ IsSome(cor)
    /\ corSaved = None
    /\ Cardinality(CorNonZero(Unwrap(cor))) < MaxCorSets
    /\ LET dp == Unwrap(cor)
       IN  \E t \in 0..dp.time_limit, d \in 0..(dp.num_directions - 1),
              x \in (-dp.time_limit)..dp.time_limit,
              y \in (-dp.time_limit)..dp.time_limit, val \in CellValues :
                cor' = Some(CorSet(dp, x, y, d, t, val))
    /\ UNCHANGED <<builder, called, phase, buildRes, pool, cpos, run, saved, loaded,
                   corSaved, corLoaded, cdp, sec, lcw, par, dsaux>>

\* save() on the directional program
CorSaveCall ==
    /\ IsSome(cor)
    /\ corSaved = None
    /\ corSaved' = Some(CorSave(Unwrap(cor)))
    /\ UNCHANGED <<builder, called, phase, buildRes, pool, cpos, run, saved, loaded,
                   cor, corLoaded, cdp, sec, lcw, par, dsaux>>

\* load() of the file save() wrote
CorLoadCall ==
    /\ IsSome(corSaved)
    /\ corLoaded = None
    /\ corLoaded' = Some(CorLoad(Unwrap(corSaved)))
    /\ UNCHANGED <<builder, called, phase, buildRes, pool, cpos, run, saved, loaded,
                   cor, corSaved, cdp, sec, lcw, par, dsaux>>


\* ----------------------------------------- the directional program: compute
MaxCorComputeLimit == 2
\* the numbers of directions compute() is run with
ComputeDirections == {1, 2, 3}

\* the lists of n kernels, one per direction
RECURSIVE CorKernelLists(_)
CorKernelLists(n) ==
    IF n = 0 THEN {<<>>}
    ELSE {Append(l, k) : l \in CorKernelLists(n - 1),
                         k \in {SimpleKernel, SkewKernel, StayKernel}}

\* a DirKernel: for each direction the relative predecessor cells that are
\* admissible; either every cell of the 3 x 3 box for every direction, or
\* one neighbour by direction and the cell two to the east
DirKernels(nd) ==
    { [d \in 1..nd |-> BoxMoves(1)],
      [d \in 1..nd |-> <<Neighbors[(d % 5) + 1], <<2, 0>>>>] }

\* dir_kernel.cells_pointing_to(d)
CellsPointingTo(dk, d) == dk[d + 1]

\* kernel.prob_at(x, y): the weight of the move (x, y)
ProbAt(k, x, y) == KernelAt(k, x, y)

\* the struct literal with its kernels, direction kernel and field types
CorProgram(tl, nd, kernels, dir_kernel, field_types) ==
    [time_limit |-> tl,
     num_directions |-> nd,
     table |-> CorNew(tl, nd).table,
     kernels |-> kernels,
     field_types |-> field_types,
     dir_kernel |-> dir_kernel]

\* kernel_x = x - i: the move that leads from the predecessor i to x
CorKernelCoordinateForward(x, i) == i - x

CorKernelCoordinate(x, i) == x - i

\* apply_kernel_at: the sum it stores at (x, y, d, t)
CorApplyKernelAt(dp, x, y, d, t) ==
    LET lim   == Limits(dp)
        cells == CellsPointingTo(dp.dir_kernel, d)
        nc    == Len(cells)
        Term(n) ==
            LET di == (n - 1) \div nc
                c  == cells[((n - 1) % nc) + 1]
                i  == x + c[1]
                j  == y + c[2]
            IN  IF i < lim[1] \/ i > lim[2] \/ j < lim[1] \/ j > lim[2] THEN 0
                ELSE CorAt(dp, i, j, di, t - 1)
                     * ProbAt(dp.kernels[di + 1], CorKernelCoordinate(x, i),
                              CorKernelCoordinate(y, j))
    IN  SumSeq([n \in 1..(dp.num_directions * nc) |-> Term(n)])

\* the loops over d, x, y of compute() for one t
CorComputeLayer(dp, t) ==
    LET tl == dp.time_limit
    IN  [dp EXCEPT !.table[t] =
            [d \in 0..(dp.num_directions - 1) |->
                [x \in 0..(2 * tl) |-> [y \in 0..(2 * tl) |->
                    CorApplyKernelAt(dp, x - tl, y - tl, d, t)]]]]

RECURSIVE CorComputeFrom(_, _)
CorComputeFrom(dp, t) ==
    IF t > dp.time_limit THEN dp
    ELSE CorComputeFrom(CorComputeLayer(dp, t), t + 1)

\* CorDynamicProgram::compute
CorCompute(dp) == CorComputeFrom(CorSet(dp, 0, 0, 0, 0, 1), 1)

\* a caller makes a directional program with one kernel per direction
CorMake ==
    /\ cdp = None
    /\ \E tl \in 1..MaxCorComputeLimit, nd \in ComputeDirections :
         \E kernels \in CorKernelLists(nd), dk \in DirKernels(nd),
            ft \in {Matrix(2 * tl + 1, 0), FieldMap(tl)} :
              cdp' = Some([dp |-> CorProgram(tl, nd, kernels, dk, ft),
                           computed |-> FALSE])
    /\ UNCHANGED <<builder, called, phase, buildRes, pool, cpos, run, saved, loaded,
                   cor, corSaved, corLoaded, sec, lcw, par, dsaux>>

\* compute() on it
CorComputeCall ==
    /\ IsSome(cdp)
    /\ ~Unwrap(cdp).computed
    /\ cdp' = Some([dp |-> CorCompute(Unwrap(cdp).dp), computed |-> TRUE])
    /\ UNCHANGED <<builder, called, phase, buildRes, pool, cpos, run, saved, loaded,
                   cor, corSaved, corLoaded, sec, lcw, par, dsaux>>

\* -------------------------- CorrelatedMultiStepWalker: sections, directions
MaxPartitionStepSize == 3

\* a walker is made and generate_path divides [-M, M] into its sections
SectionsMake ==
    /\ sec = None
    /\ \E m \in 1..MaxPartitionStepSize :
         \E d \in 1..(2 * m + 1) :
            sec' = Some([walker |-> [kind |-> "CorrelatedMultiStep",
                                     max_step_size |-> m,
                                     directions_per_axis |-> d],
                         sections |-> Sections(m, d),
                         mov |-> None,
                         last_direction |-> 0])
    /\ UNCHANGED <<builder, called, phase, buildRes, pool, cpos, run, saved, loaded,
                   cor, corSaved, corLoaded, cdp, lcw, par, dsaux>>

\* one pass of the loop has sampled the move (dx, dy) and sets last_direction
SectionsDirection ==
    /\ IsSome(sec)
    /\ Unwrap(sec).mov = None
    /\ LET s == Unwrap(sec)
           m == s.walker.max_step_size
       IN  \E dx \in (-m)..m, dy \in (-m)..m :
              sec' = Some([s EXCEPT
                        !.mov = Some(<<dx, dy>>),
                        !.last_direction = NextDirection(s.walker, 0, <<dx, dy>>)])
    /\ UNCHANGED <<builder, called, phase, buildRes, pool, cpos, run, saved, loaded,
                   cor, corSaved, corLoaded, cdp, lcw, par, dsaux>>

\* ------------------------------------------------------- compute_parallel
MaxInFlight == 1
\* the tiles of a layer: three ranges on each axis
Tiles == 9
RangesPerAxis == 3

\* the exclusive end of the last range, one short
LastRangeEndShort(limit_pos) == limit_pos

\* the exclusive end of the last range: limit_pos + 1
LastRangeEnd(limit_pos) == limit_pos + 1

\* the three half-open ranges <<start, end>> of compute_parallel
Ranges(dp) ==
    LET limit_neg == Limits(dp)[1]
        limit_pos == Limits(dp)[2]
        chunk_size == (dp.time_limit + 1) \div RangesPerAxis
    IN  [i \in 1..RangesPerAxis |->
            IF i < RangesPerAxis
            THEN <<limit_neg + (i - 1) * chunk_size, limit_neg + i * chunk_size>>
            ELSE <<limit_neg + (RangesPerAxis - 1) * chunk_size, LastRangeEnd(limit_pos)>>]

\* the k-th chunk: the pair of its x range and its y range, x outermost
Chunk(dp, k) ==
    <<Ranges(dp)[((k - 1) \div RangesPerAxis) + 1], Ranges(dp)[((k - 1) % RangesPerAxis) + 1]>>

\* Range::len
RangeLen(r) == IF r[2] > r[1] THEN r[2] - r[1] ELSE 0

\* apply_kernel: the free function the workers call on the old layer
ApplyKernel(table_old, kernels, field_types, limit_neg, limit_pos, x, y) ==
    LET field_type == field_types[limit_pos + x][limit_pos + y]
        kernel == kernels[field_type + 1]
        ks == KernelSize(kernel) \div 2
    IN  SumInside(x - ks, x + ks, limit_neg, limit_pos, LAMBDA i :
          SumInside(y - ks, y + ks, limit_neg, limit_pos, LAMBDA j :
            table_old[limit_pos + i][limit_pos + j]
              * KernelAt(kernel, KernelCoordinate(x, i), KernelCoordinate(y, j))))

\* the thunk of a chunk returns its ranges and the values of its cells
Thunk(dp, table_old, k) ==
    LET xr == Chunk(dp, k)[1]
        yr == Chunk(dp, k)[2]
    IN  [x_range |-> xr, y_range |-> yr,
         probs |-> [i \in 0..(RangeLen(xr) - 1) |-> [j \in 0..(RangeLen(yr) - 1) |->
                     ApplyKernel(table_old, dp.kernels, dp.field_types,
                                 Limits(dp)[1], Limits(dp)[2], xr[1] + i, yr[1] + j)]]]

\* the main thread writes one received tile into layer t
WriteTile(dp, t, msg) ==
    LET tl == dp.time_limit
        InRange(v, r) == v >= r[1] /\ v < r[2]
    IN  [dp EXCEPT !.table[t] =
            [x \in 0..(2 * tl) |-> [y \in 0..(2 * tl) |->
                IF InRange(x - tl, msg.x_range) /\ InRange(y - tl, msg.y_range)
                THEN msg.probs[x - tl - msg.x_range[1]][y - tl - msg.y_range[1]]
                ELSE dp.table[t][x][y]]]]

\* the thunks of a layer as they are handed to the pool: each closure owns
\* clones of the old layer, the kernels and the field types, so what it will
\* return is fixed from then on
Thunks(dp, table_old) == [k \in 1..Tiles |-> Thunk(dp, table_old, k)]

\* compute_parallel() on a program built from the same builder: set(0,0,0,1.0),
\* the old layer is cloned and the nine thunks of layer 1 go to the workers
ParStart ==
    /\ phase = "computed"
    /\ pool.kind = "Single"
    /\ par = NoPar
    /\ LET dp == DpSet(Build(builder).dp, 0, 0, 0, 1)
       IN  par' = [pc |-> "layer", dp |-> dp, t |-> 1,
                   thunks |-> Thunks(dp, dp.table[0]),
                   jobs |-> 1..Tiles, chan |-> <<>>, taken |-> 0]
    /\ UNCHANGED <<builder, called, phase, buildRes, pool, cpos, run, saved, loaded,
                   coraux, dsaux>>

\* a worker runs the thunk of one chunk and sends its result on the channel
ParWork ==
    /\ par.pc = "layer"
    /\ Len(par.chan) < MaxInFlight
    /\ \E k \in par.jobs :
          par' = [par EXCEPT !.jobs = @ \ {k},
                             !.chan = Append(@, par.thunks[k])]
    /\ UNCHANGED <<builder, called, phase, buildRes, pool, cpos, run, saved, loaded,
                   coraux, dsaux>>

\* the loop over the results leaves off one result early
AllTakenButOne(taken) == taken >= Tiles - 1

\* rx.iter().take(9): the loop over the results ends with the ninth
AllTaken(taken) == taken >= Tiles

\* the main thread takes the next result from the channel and writes it; after
\* nine results it goes on to the next layer or returns
ParRecv ==
    /\ par.pc = "layer"
    /\ par.chan # <<>>
    /\ LET dp == WriteTile(par.dp, par.t, Head(par.chan))
           taken == par.taken + 1
       IN  par' = IF ~AllTaken(taken)
                  THEN [par EXCEPT !.dp = dp, !.chan = Tail(@), !.taken = taken]
                  ELSE IF par.t < dp.time_limit
                  THEN [par EXCEPT !.dp = dp, !.t = @ + 1,
                                   !.thunks = Thunks(dp, dp.table[par.t]),
                                   !.jobs = 1..Tiles, !.chan = <<>>, !.taken = 0]
                  ELSE [pc |-> "done", dp |-> dp]
    /\ UNCHANGED <<builder, called, phase, buildRes, pool, cpos, run, saved, loaded,
                   coraux, dsaux>>

\* ----------------------------------------------------------------- dataset
MaxData == 2
MaxFilters == 2

\* Point::XY and Point::GCS
XY(x, y) == [kind |-> "XY", x |-> x, y |-> y]
GCS(x, y) == [kind |-> "GCS", x |-> x, y |-> y]

\* XYPoint - XYPoint and XYPoint + XYPoint, by coordinate
PointSub(a, b) == XY(a.x - b.x, a.y - b.y)
PointAdd(a, b) == XY(a.x + b.x, a.y + b.y)

\* a HashMap is the set of its <<key, value>> entries
NoMetadata == {}
TestMetadata == {<<"test", "test">>}

\* HashMap::get
MetadataGet(m, key) ==
    IF \E e \in m : e[1] = key
    THEN Some((CHOOSE e \in m : e[1] = key)[2])
    ELSE None

Datapoint(p, m) == [point |-> p, metadata |-> m]

\* the x coordinate of a datapoint too far east of the others for any program
FarX == MaxTimeLimit + 2

\* the datapoints of the datasets, each of the coordinate type of its dataset
Datapoints(ct) ==
    IF ct = "XY"
    THEN {Datapoint(XY(1, -1), NoMetadata), Datapoint(XY(1, 0), TestMetadata),
          Datapoint(XY(FarX, -1), NoMetadata)}
    ELSE {Datapoint(GCS(0, 0), NoMetadata)}

CoordinateTypes == {"XY", "GCS"}

\* what a DatasetLoader hands over: its data and its coordinate type
Loaders ==
    {[data |-> <<Datapoint(XY(1, -1), NoMetadata), Datapoint(XY(1, 0), TestMetadata),
                 Datapoint(XY(FarX, -1), NoMetadata)>>,
      coordinate_type |-> "XY"],
     [data |-> <<Datapoint(GCS(0, 0), NoMetadata), Datapoint(GCS(2, 2), NoMetadata)>>,
      coordinate_type |-> "GCS"]}

\* Dataset::new
DatasetNew(ct) == [data |-> <<>>, coordinate_type |-> ct]

\* Dataset::get
DatasetGet(ds, index) ==
    IF index + 1 \in DOMAIN ds.data THEN Some(ds.data[index + 1]) ELSE None

\* DatasetFilter
ByMetadata(key, value) == [kind |-> "ByMetadata", key |-> key, value |-> value]
ByCoordinates(from, to) == [kind |-> "ByCoordinates", from |-> from, to |-> to]

\* the filters handed to filter()
DatasetFilters ==
    {ByMetadata("test", "test"), ByMetadata("test", "other"),
     ByCoordinates(XY(0, -1), XY(1, 0)),
     ByCoordinates(GCS(0, 0), GCS(1, 1))}

RECURSIVE FilterLists(_)
FilterLists(n) ==
    IF n = 0 THEN {<<>>}
    ELSE FilterLists(n - 1)
           \cup {Append(l, f) : l \in {k \in FilterLists(n - 1) : Len(k) = n - 1},
                                f \in DatasetFilters}

\* the loop over the filters for one datapoint: "keep", "drop" at the first
\* filter that fails, "err" at a ByCoordinates filter of the other type
RECURSIVE FilterDatapoint(_, _, _)
FilterDatapoint(ds, datapoint, filters) ==
    IF filters = <<>> THEN "keep"
    ELSE LET f == Head(filters)
         IN  IF f.kind = "ByMetadata"
             THEN IF MetadataGet(datapoint.metadata, f.key) # Some(f.value)
                  THEN "drop"
                  ELSE FilterDatapoint(ds, datapoint, Tail(filters))
             ELSE IF f.from.kind # ds.coordinate_type \/ f.to.kind # ds.coordinate_type
                  THEN "err"
                  ELSE IF \/ datapoint.point.x < f.from.x \/ datapoint.point.x > f.to.x
                          \/ datapoint.point.y < f.from.y \/ datapoint.point.y > f.to.y
                       THEN "drop"
                       ELSE FilterDatapoint(ds, datapoint, Tail(filters))

\* Dataset::filter: the result and the dataset afterwards; an error returns
\* before self.data is assigned
Filter(ds, filters) ==
    LET verdict == [i \in DOMAIN ds.data |-> FilterDatapoint(ds, ds.data[i], filters)]
        kept == SelectSeq(ds.data, LAMBDA d : FilterDatapoint(ds, d, filters) = "keep")
    IN  IF \E i \in DOMAIN ds.data : verdict[i] = "err"
        THEN [res |-> "Err", ds |-> ds]
        ELSE [res |-> "Ok", n |-> Len(kept), ds |-> [ds EXCEPT !.data = kept]]

\* Dataset::new(coordinate_type)
NewDataset ==
    /\ dataset = None
    /\ \E ct \in CoordinateTypes : dataset' = Some(DatasetNew(ct))
    /\ UNCHANGED <<builder, called, phase, buildRes, pool, cpos, run, saved, loaded,
                   coraux, par, rw, filt>>

\* Dataset::from_loader
FromLoader ==
    /\ dataset = None
    /\ \E l \in Loaders : dataset' = Some(l)
    /\ UNCHANGED <<builder, called, phase, buildRes, pool, cpos, run, saved, loaded,
                   coraux, par, rw, filt>>

\* Dataset::push
Push ==
    /\ IsSome(dataset)
    /\ filt = None
    /\ Len(Unwrap(dataset).data) < MaxData
    /\ \E d \in Datapoints(Unwrap(dataset).coordinate_type) :
          dataset' = Some([Unwrap(dataset) EXCEPT !.data = Append(@, d)])
    /\ UNCHANGED <<builder, called, phase, buildRes, pool, cpos, run, saved, loaded,
                   coraux, par, rw, filt>>

\* Dataset::filter(filters)
FilterCall ==
    /\ IsSome(dataset)
    /\ filt = None
    /\ \E filters \in FilterLists(MaxFilters) :
          LET r == Filter(Unwrap(dataset), filters)
          IN  /\ dataset' = Some(r.ds)
              /\ filt' = Some([filters |-> filters, res |-> r.res,
                               n |-> IF r.res = "Ok" THEN r.n ELSE 0])
    /\ UNCHANGED <<builder, called, phase, buildRes, pool, cpos, run, saved, loaded,
                   coraux, par, rw>>

\* DynamicProgramPool::limits: try_unwrap().unwrap().limits()
PoolLimits(pl) ==
    IF pl.kind = "Single"
    THEN [res |-> "Ok", limits |-> Limits(pl.dps[1])]
    ELSE [res |-> "panic"]

\* an rw_between call that has returned: an error, a panic, or Ok(walk)
RwReturned(from, to, res, walk) ==
    [pc |-> "done", from |-> from, to |-> to, res |-> res, walk |-> walk]

\* Dataset::rw_between with auto_scale = false, up to the call of
\* generate_path: the pairs <<rw, run>> it can be in afterwards
RwStart(ds, w, from, to, time_steps) ==
    LET f == DatasetGet(ds, from)
        t == DatasetGet(ds, to)
    IN  IF ~IsSome(f) \/ ~IsSome(t)
        THEN {<<RwReturned(from, to, "Err", <<>>), run>>}
        ELSE IF Unwrap(f).point.kind # "XY" \/ Unwrap(t).point.kind # "XY"
        THEN {<<RwReturned(from, to, "Err", <<>>), run>>}
        ELSE
          LET translated_to == PointSub(Unwrap(t).point, Unwrap(f).point)
              lim == PoolLimits(pool)
          IN  IF lim.res = "panic"
              THEN {<<RwReturned(from, to, "panic", <<>>), run>>}
              ELSE IF Abs(translated_to.x) > lim.limits[2] \/ Abs(translated_to.y) > lim.limits[2]
              THEN {<<RwReturned(from, to, "Err", <<>>), run>>}
              ELSE {<<[pc |-> "walking", from |-> from, to |-> to], r>> :
                      r \in IF w.kind \in ScalarKinds
                            THEN StartScalar(w, translated_to.x, translated_to.y, time_steps)
                            ELSE StartDirectional(w, translated_to.x, translated_to.y,
                                                  time_steps)}

\* rw_between is called with the indices of two datapoints
RwBetween ==
    /\ phase = "computed"
    /\ run.pc = "idle"
    /\ rw.pc = "idle"
    /\ IsSome(dataset)
    /\ LET ds == Unwrap(dataset)
           tl == pool.dps[1].time_limit
       IN  \E w \in Walkers(pool), from \in 0..Len(ds.data), to \in 0..Len(ds.data),
              time_steps \in 1..tl :
              \E next \in RwStart(ds, w, from, to, time_steps) :
                  rw' = next[1] /\ run' = next[2]
    /\ UNCHANGED <<builder, called, phase, buildRes, pool, cpos, saved, loaded,
                   coraux, par, dataset, filt>>

\* generate_path has returned to rw_between: its error is passed on, its walk
\* is translated back by `from`
RwReturn ==
    /\ rw.pc = "walking"
    /\ run.pc = "done"
    /\ LET from == Unwrap(DatasetGet(Unwrap(dataset), rw.from)).point
       IN  rw' = IF run.res = "Ok"
                 THEN RwReturned(rw.from, rw.to, "Ok",
                        [n \in DOMAIN run.path |->
                            <<run.path[n][1] + from.x, run.path[n][2] + from.y>>])
                 ELSE IF run.res = "panic"
                 THEN RwReturned(rw.from, rw.to, "panic", <<>>)
                 ELSE RwReturned(rw.from, rw.to, "Err", <<>>)
    /\ UNCHANGED <<builder, called, phase, buildRes, pool, cpos, run, saved, loaded,
                   coraux, par, dataset, filt>>

\* --------------------------------------------------------- specifications

Init ==
    /\ builder = NewBuilder
    /\ called = {}
    /\ phase = "builder"
    /\ buildRes = "none"
    /\ pool = NoPool
    /\ cpos = <<0, 0>>
    /\ run = Idle
    /\ saved = None
    /\ loaded = None
    /\ cor = None
    /\ corSaved = None
    /\ corLoaded = None
    /\ cdp = None
    /\ sec = None
    /\ lcw = None
    /\ par = NoPar
    /\ dataset = None
    /\ rw = NoRw
    /\ filt = None

\* the builder alone
NextBuilder ==
    \/ TimeLimitSetter
    \/ SimpleSetter
    \/ KernelsSetter
    \/ FieldTypesSetter
    \/ AddSingleBarrier
    \/ AddRectBarrier
    \/ BuildCall
    \/ BuildFamily

SpecBuilder == Init /\ [][NextBuilder]_vars

\* a Single pool from build to generate_path
NextSingle ==
    \/ TimeLimitSetter
    \/ SimpleSetter
    \/ KernelsSetter
    \/ FieldTypesSetter
    \/ AddSingleBarrier
    \/ AddRectBarrier
    \/ BuildCall
    \/ ComputeStep
    \/ GeneratePath
    \/ WalkStep

SpecSingle == Init /\ [][NextSingle]_vars

\* a Single pool built, computed, saved and loaded
NextSave ==
    \/ TimeLimitSetter
    \/ SimpleSetter
    \/ KernelsSetter
    \/ FieldTypesSetter
    \/ AddSingleBarrier
    \/ AddRectBarrier
    \/ BuildCall
    \/ ComputeStep
    \/ SaveCall
    \/ LoadCall

SpecSave == Init /\ [][NextSave]_vars

\* the directional program, saved and loaded
NextCor ==
    \/ CorNewCall
    \/ CorSetCall
    \/ CorSaveCall
    \/ CorLoadCall

SpecCor == Init /\ [][NextCor]_vars

\* the builder, compute() and compute_parallel()
NextPar ==
    \/ TimeLimitSetter
    \/ SimpleSetter
    \/ KernelsSetter
    \/ FieldTypesSetter
    \/ AddSingleBarrier
    \/ AddRectBarrier
    \/ BuildCall
    \/ ComputeStep
    \/ ParStart
    \/ ParWork
    \/ ParRecv

SpecPar == Init /\ [][NextPar]_vars

\* a dataset made, filled and filtered
NextDataset ==
    \/ NewDataset
    \/ FromLoader
    \/ Push
    \/ FilterCall

SpecDataset == Init /\ [][NextDataset]_vars

\* pools of every variant, a loaded dataset and rw_between
NextRw ==
    \/ TimeLimitSetter
    \/ SimpleSetter
    \/ KernelsSetter
    \/ BuildCall
    \/ BuildFamily
    \/ ComputeStep
    \/ OpenDiskVec
    \/ FromLoader
    \/ RwBetween
    \/ WalkStep
    \/ RwReturn

SpecRw == Init /\ [][NextRw]_vars

\* the forward pass of the directional program
NextCorCompute ==
    \/ CorMake
    \/ CorComputeCall

SpecCorCompute == Init /\ [][NextCorCompute]_vars

\* the direction partition of CorrelatedMultiStepWalker
NextSections ==
    \/ SectionsMake
    \/ SectionsDirection

SpecSections == Init /\ [][NextSections]_vars

\* LandCoverWalker::new on the inputs of a builder
NextLandCover ==
    \/ TimeLimitSetter
    \/ KernelsSetter
    \/ FieldTypesSetter
    \/ LandCoverNewCall

SpecLandCover == Init /\ [][NextLandCover]_vars

\* the builder and the forward pass
NextCompute ==
    \/ TimeLimitSetter
    \/ SimpleSetter
    \/ KernelsSetter
    \/ FieldTypesSetter
    \/ AddSingleBarrier
    \/ AddRectBarrier
    \/ BuildCall
    \/ BuildFamily
    \/ ComputeStep

SpecCompute == Init /\ [][NextCompute]_vars

\* the whole life cycle: build, compute, generate_path
Next ==
    \/ TimeLimitSetter
    \/ SimpleSetter
    \/ KernelsSetter
    \/ FieldTypesSetter
    \/ AddSingleBarrier
    \/ AddRectBarrier
    \/ BuildCall
    \/ BuildFamily
    \/ ComputeStep
    \/ OpenDiskVec
    \/ GeneratePath
    \/ WalkStep

Spec == Init /\ [][Next]_vars

\* ------------------------------------------------------------ properties
\* the programs of the pool once compute() has run on each of them
Computed == IF phase = "computed" THEN {pool.dps[d] : d \in DOMAIN pool.dps} ELSE {}

\* the sites of the lattice of a program
Sites(dp) == ((-dp.time_limit)..dp.time_limit) \X ((-dp.time_limit)..dp.time_limit)

\* the mass a destination collects over the offsets of its kernel: offset
\* (dx, dy) leads back to the predecessor (x - dx, y - dy)
Collected(dp, x, y, t) ==
    LET K    == dp.kernels[FieldTypeAt(dp, x, y) + 1]
        k    == (KernelSize(K) - 1) \div 2
        offs == BoxMoves(k)
    IN  SumSeq([n \in 1..Len(offs) |->
            LET i == x - offs[n][1]
                j == y - offs[n][2]
            IN  IF <<i, j>> \in Sites(dp)
                THEN dp.table[t - 1][dp.time_limit + i][dp.time_limit + j]
                        * KernelAt(K, offs[n][1], offs[n][2])
                ELSE 0])

\* C1: after build() and compute() layer 0 is 1 at the origin and 0 elsewhere,
\* and every later layer is, at every site, the sum over the predecessors
\* inside the lattice of their mass one layer earlier times
\* K.at(x - i, y - j), K being the kernel of the destination's field type.
C1_ForwardPass ==
    \A dp \in Computed : \A s \in Sites(dp) :
        /\ DpAt(dp, s[1], s[2], 0) = (IF s = <<0, 0>> THEN 1 ELSE 0)
        /\ \A t \in 1..dp.time_limit :
              DpAt(dp, s[1], s[2], t) = Collected(dp, s[1], s[2], t)

\* a computed program with a one-sided kernel has mass on the rim of the
\* lattice, where part of the stencil lies outside
C1_Witness ==
    \E dp \in Computed :
        /\ dp.time_limit >= 2
        /\ dp.kernels[1] = SkewKernel
        /\ DpAt(dp, dp.time_limit, 0, dp.time_limit) > 0
        /\ DpAt(dp, -2, 0, 1) > 0

\* the barrier cells of the builder that lie on the lattice of a program
BarrierSites(dp) == {builder.barriers[n] : n \in DOMAIN builder.barriers} \cap Sites(dp)

\* C8: after build() with barriers and compute(), a barrier site carries no
\* mass in any layer 1..T, and none in layer 0 unless it is the origin.
C8_BarrierMass ==
    \A dp \in Computed : \A b \in BarrierSites(dp) :
        /\ \A t \in 1..dp.time_limit : DpAt(dp, b[1], b[2], t) = 0
        /\ b # <<0, 0>> => DpAt(dp, b[1], b[2], 0) = 0

\* a barrier next to the origin, whose neighbours carry mass
C8_Witness ==
    \E dp \in Computed :
        /\ <<1, 0>> \in BarrierSites(dp)
        /\ dp.time_limit >= 2
        /\ DpAt(dp, 0, 0, 1) > 0
        /\ DpAt(dp, 1, 1, 2) > 0

ReturnedWalk == run.pc = "done" /\ run.res = "Ok"

\* the forward move from point n of the returned walk to point n + 1
ForwardMove(n) ==
    <<run.path[n + 1][1] - run.path[n][1], run.path[n + 1][2] - run.path[n][2]>>

\* C2: a walk returned by generate_path(pool, to_x, to_y, T) of any of the six
\* walkers holds exactly T + 1 points.
C2_WalkLength == ReturnedWalk => Len(run.path) = run.time_steps + 1

\* C3: a walk returned by generate_path(pool, to_x, to_y, T) starts at (0, 0)
\* and ends at (to_x, to_y), whatever was drawn.
C3_WalkEndpoints ==
    ReturnedWalk =>
        /\ run.path[1] = <<0, 0>>
        /\ run.path[Len(run.path)] = <<run.to_x, run.to_y>>

\* the program was built with one kernel, the one the walker holds
OwnKernel ==
    /\ pool.kind = "Single"
    /\ Len(Unwrap(builder.kernels)) = 1
    /\ run.walker.kernel = Unwrap(builder.kernels)[1][2]

\* C4: in a walk StandardWalker or MultiStepWalker returns on a program
\* computed with the walker's own kernel, symmetric or not, every forward
\* move p_i -> p_(i+1) has positive weight in that kernel.
C4_KernelSupport ==
    (ReturnedWalk /\ run.walker.kind \in {"Standard", "MultiStep"} /\ OwnKernel)
        => \A n \in 1..(Len(run.path) - 1) :
              KernelAt(run.walker.kernel, ForwardMove(n)[1], ForwardMove(n)[2]) > 0

\* C5: on a Single pool and a target on the lattice, a scalar walker returns
\* NoPathExists straight away, no step sampled, when the mass of the target
\* at time_steps is zero, and never returns it when that mass is positive.
C5_NoPathExistsScalar ==
    [][(run'.pc # "idle" /\ run'.walker.kind \in ScalarKinds
            /\ pool.kind = "Single")
        => IF DpAt(pool.dps[1], run'.to_x, run'.to_y, run'.time_steps) = 0
           THEN /\ run.pc = "idle"
                /\ run'.pc = "done"
                /\ run'.res = "NoPathExists"
                /\ run'.path = <<>>
           ELSE run'.res # "NoPathExists"]_vars

\* a scalar walker has returned NoPathExists for a target without mass
C5_Witness ==
    /\ run.pc = "done"
    /\ run.walker.kind \in {"Standard", "MultiStep"}
    /\ pool.kind = "Single"
    /\ run.res = "NoPathExists"
    /\ DpAt(pool.dps[1], run.to_x, run.to_y, run.time_steps) = 0
    /\ DpAt(pool.dps[1], run.to_x, run.to_y, run.time_steps - 1) > 0

\* the mass of the target in variant d of the pool
VariantMass(d) == DpAt(pool.dps[d], run.to_x, run.to_y, run.time_steps)

\* C6: a directional walker fails with NoPathExists exactly when the mass of
\* the target at T is zero in every variant of the pool; with positive mass
\* in one variant it goes on to sample.
C6_NoPathExistsDirectional ==
    (run.pc # "idle" /\ run.walker.kind \notin ScalarKinds
        /\ pool.kind = "Multiple")
        => (run.res = "NoPathExists"
                <=> \A d \in DOMAIN pool.dps : VariantMass(d) = 0)

\* C7: a scalar walker given a Multiple or MultipleFromDisk pool returns
\* RequiresSingleDynamicProgram and a directional walker given a Single pool
\* returns RequiresMultipleDynamicPrograms, in no case NoPathExists: the
\* call is over at once with that error.
C7_PoolMismatch ==
    run.pc # "idle" =>
        /\ (run.walker.kind \in ScalarKinds
                /\ pool.kind \in {"Multiple", "MultipleFromDisk"})
              => (run.pc = "done" /\ run.res = "RequiresSingleDynamicProgram")
        /\ (run.walker.kind \notin ScalarKinds /\ pool.kind = "Single")
              => (run.pc = "done" /\ run.res = "RequiresMultipleDynamicPrograms")

\* a scalar walker on a Multiple pool, for a target no variant has mass at
C7_Witness ==
    /\ run.pc = "done"
    /\ run.walker.kind \in {"Standard", "MultiStep"}
    /\ pool.kind = "Multiple"
    /\ run.res = "RequiresSingleDynamicProgram"
    /\ \A d \in DOMAIN pool.dps : VariantMass(d) = 0

\* C9: a walk StandardWalker or MultiStepWalker returns on a computed Single
\* pool holds no barrier site other than the origin.
C9_BarrierAvoidance ==
    (ReturnedWalk /\ run.walker.kind \in {"Standard", "MultiStep"}
        /\ pool.kind = "Single")
        => \A n \in DOMAIN run.path :
              run.path[n] \in BarrierSites(pool.dps[1]) => run.path[n] = <<0, 0>>

\* a walk of two moves that went around the barrier at (1, 0) to reach (1, 1)
C9_Witness ==
    /\ ReturnedWalk
    /\ run.walker.kind \in {"Standard", "MultiStep"}
    /\ pool.kind = "Single"
    /\ <<1, 0>> \in BarrierSites(pool.dps[1])
    /\ <<run.to_x, run.to_y>> = <<1, 1>>
    /\ Len(run.path) = 3

\* the barriers of the builder that lie outside [-T, T]^2, T the time limit
\* the builder holds
BarriersOutside ==
    IF IsSome(builder.time_limit)
    THEN {n \in DOMAIN builder.barriers :
            \/ Abs(builder.barriers[n][1]) > Unwrap(builder.time_limit)
            \/ Abs(builder.barriers[n][2]) > Unwrap(builder.time_limit)}
    ELSE {}

\* C11: with the type and a time limit T set, build() returns
\* BarrierOutOfRange whenever a barrier cell lies outside [-T, T]^2, on
\* builders without kernels as in the test of the repository too.
C11_BarrierOutOfRange ==
    (buildRes # "none" /\ {"time_limit", "type"} \subseteq called
        /\ BarriersOutside # {})
        => buildRes = "BarrierOutOfRange"

\* the field-type map of the builder is not (2T+1) x (2T+1), T the time
\* limit the builder holds
WrongSizeMap ==
    /\ IsSome(builder.time_limit)
    /\ IsSome(builder.field_types)
    /\ \/ Rows(Unwrap(builder.field_types)) # 2 * Unwrap(builder.time_limit) + 1
       \/ Cols(Unwrap(builder.field_types)) # 2 * Unwrap(builder.time_limit) + 1

\* C12: build() returns WrongSizeOfFieldProbabilities whenever the map given
\* to field_types() is not (2T+1) x (2T+1), too small or too large; it neither
\* panics nor accepts the map.
C12_WrongSizeOfFieldProbabilities ==
    (buildRes # "none" /\ {"time_limit", "type", "kernels"} \subseteq called
        /\ WrongSizeMap)
        => buildRes = "WrongSizeOfFieldProbabilities"

\* C13: load(save(dp)) of a computed scalar program has the time limit of dp,
\* its value in every cell of the table and its label in every cell of the
\* field-type map, whatever time limit, kernels, field-type map and barriers.
C13_SaveLoadRoundTrip ==
    (IsSome(loaded) /\ pool.kind = "Single")
        => /\ Unwrap(loaded).res = "Ok"
           /\ DpEq(Unwrap(loaded).dp, pool.dps[1])

\* C14: load(save(dp)) of a directional program returns a program with the
\* same time limit, the same number of directions and an equal table
C14_CorSaveLoadRoundTrip ==
    IsSome(corLoaded) =>
        /\ Unwrap(corLoaded).res = "Ok"
        /\ Unwrap(corLoaded).dp.time_limit = Unwrap(cor).time_limit
        /\ Unwrap(corLoaded).dp.num_directions = Unwrap(cor).num_directions
        /\ Unwrap(corLoaded).dp.table = Unwrap(cor).table

\* C15: when compute_parallel() has returned, its table equals, cell by cell,
\* the table compute() left for the same kernels and field-type map
C15_ParallelEqualsSerial ==
    par.pc = "done" => par.dp.table = pool.dps[1].table

\* compute_parallel() has returned for time limit 1, where eight of the nine
\* tiles are empty, and layer 1 holds mass
C15_Witness ==
    /\ par.pc = "done"
    /\ par.dp.time_limit = 1
    /\ RangeLen(Ranges(par.dp)[1]) = 0
    /\ \E x \in 0..2, y \in 0..2 : par.dp.table[1][x][y] > 0

\* the largest kernel radius over the field types of a program
KMax(dp) ==
    LET radii == {KernelSize(dp.kernels[i]) \div 2 : i \in DOMAIN dp.kernels}
    IN  CHOOSE r \in radii : \A q \in radii : q <= r

\* the larger of |x| and |y|
Chebyshev(x, y) == IF Abs(x) >= Abs(y) THEN Abs(x) ELSE Abs(y)

\* C16 as stated: after compute(), P(x, y, t) = 0 at every site with
\* |x| + |y| > t * k_max
C16_ReachabilityL1 ==
    \A dp \in Computed : \A s \in Sites(dp) : \A t \in 0..dp.time_limit :
        Abs(s[1]) + Abs(s[2]) > t * KMax(dp) => DpAt(dp, s[1], s[2], t) = 0

\* C16 amended: after compute(), P(x, y, t) = 0 at every site with
\* max(|x|, |y|) > t * k_max
C16_Reachability ==
    \A dp \in Computed : \A s \in Sites(dp) : \A t \in 0..dp.time_limit :
        Chebyshev(s[1], s[2]) > t * KMax(dp) => DpAt(dp, s[1], s[2], t) = 0

\* a computed program with a kernel that has diagonal entries: one step puts
\* mass on the diagonal neighbour of the origin, and sites two columns away
\* are still out of reach
C16_Witness ==
    \E dp \in Computed :
        /\ dp.time_limit >= 2
        /\ KMax(dp) = 1
        /\ DpAt(dp, 1, 1, 1) > 0
        /\ DpAt(dp, 2, 0, 1) = 0

\* a default no cell of a table holds
ProbeDefault == 77

\* the sites of the lattice of a pool and the ring of sites just outside it
ProbeSites(pl) ==
    LET tl == pl.dps[1].time_limit
    IN  ((-tl - 1)..(tl + 1)) \X ((-tl - 1)..(tl + 1))

\* C17: on a computed pool of any variant, for every t <= T and every variant
\* of the pool, at_or returns the default when x or y lies outside [-T, T]
\* and what at returns when both lie inside
C17_AtOrDefault ==
    phase = "computed" =>
        LET tl == pool.dps[1].time_limit
        IN  \A s \in ProbeSites(pool), t \in 0..tl, v \in 0..(Len(pool.dps) - 1) :
              IF s \in Sites(pool.dps[1])
              THEN PoolAtOr(pool, s[1], s[2], t, v, ProbeDefault)
                     = PoolAt(pool, s[1], s[2], t, v)
              ELSE PoolAtOr(pool, s[1], s[2], t, v, ProbeDefault) = ProbeDefault

\* C18: on a layered store of V variants, at(x, y, t, v) returns, for every t
\* in 0..T, every v in 0..V-1 and every site of the lattice, the value at row
\* x + T, column y + T of the v-th block of file layer_t
C18_DiskLookup ==
    (phase = "computed" /\ pool.kind = "MultipleFromDisk") =>
        LET tl == pool.dps[1].time_limit
            n  == 2 * tl + 1
        IN  \A s \in Sites(pool.dps[1]), t \in 0..tl, v \in 0..(Len(pool.dps) - 1) :
              DiskAt(pool, s[1], s[2], t, v)
                = LayerFileAt(pool, t, v * n * n + (s[1] + tl) * n + (s[2] + tl))

\* the pass of the loop about to run finds P(here, t) = 0 at its current site
ZeroDenominator ==
    /\ run.pc = "loop"
    /\ PoolAtOr(pool, run.x, run.y, run.t,
                Variant(run.walker, run.last_direction), 0) = 0

\* C19: a reverse-sampling step that finds P(here, t) = 0 for its current site
\* makes generate_path return InconsistentPath
C19_ZeroDenominator ==
    [][(ZeroDenominator /\ run' # run)
          => (run'.pc = "done" /\ run'.res = "InconsistentPath")]_vars

\* the moves a walker may make between two consecutive points of a walk
StepAllowed(w, mov) ==
    CASE w.kind \in {"Standard", "Correlated"} ->
            \E n \in 1..Len(Neighbors) : Neighbors[n] = mov
      [] w.kind \in {"MultiStep", "CorrelatedMultiStep"} ->
            Abs(mov[1]) <= w.max_step_size /\ Abs(mov[2]) <= w.max_step_size
      [] w.kind = "CorrelatedFixedStep" ->
            Abs(mov[1]) + Abs(mov[2]) = w.step_size
      [] OTHER -> TRUE

\* C20: in every returned walk, every consecutive pair of points differs by a
\* move of the walker's candidate set: a neighbour move for Standard and
\* Correlated, |dx|, |dy| <= M for MultiStep and CorrelatedMultiStep, and
\* |dx| + |dy| = S for CorrelatedFixedStep, the first reverse step included
C20_StepShape ==
    ReturnedWalk =>
        \A n \in 1..(Len(run.path) - 1) : StepAllowed(run.walker, ForwardMove(n))

\* a directional walker returned a walk whose last move, the first reverse
\* step, was drawn without the table, after at least one sampled step
C20_Witness ==
    /\ ReturnedWalk
    /\ run.walker.kind = "CorrelatedFixedStep"
    /\ Len(run.path) >= 3
    /\ ForwardMove(Len(run.path) - 1) # <<0, 0>>

\* C21: limits() of a computed pool returns (-T, T) and does not panic,
\* whatever the variant of the pool
C21_PoolLimits ==
    phase = "computed" =>
        /\ PoolLimits(pool).res = "Ok"
        /\ PoolLimits(pool).limits
              = <<-pool.dps[1].time_limit, pool.dps[1].time_limit>>

\* rw_between has returned and both of its datapoints are XY points
RwReturnedXY ==
    /\ rw.pc = "done"
    /\ IsSome(DatasetGet(Unwrap(dataset), rw.from))
    /\ IsSome(DatasetGet(Unwrap(dataset), rw.to))
    /\ Unwrap(DatasetGet(Unwrap(dataset), rw.from)).point.kind = "XY"
    /\ Unwrap(DatasetGet(Unwrap(dataset), rw.to)).point.kind = "XY"

\* C22: rw_between without scaling between two XY datapoints returns an
\* error, the walker not called, when `to` is more than T from `from` on an
\* axis; otherwise it calls generate_path with the target to - from and
\* returns the walker's walk with `from` added to every point, so that the
\* walk has the walker's length and ends at `to`
C22_RwBetween ==
    RwReturnedXY =>
        LET from == Unwrap(DatasetGet(Unwrap(dataset), rw.from)).point
            to   == Unwrap(DatasetGet(Unwrap(dataset), rw.to)).point
            tl   == pool.dps[1].time_limit
        IN  IF Abs(to.x - from.x) > tl \/ Abs(to.y - from.y) > tl
            THEN rw.res = "Err" /\ run.pc = "idle"
            ELSE /\ run.pc = "done"
                 /\ run.to_x = to.x - from.x
                 /\ run.to_y = to.y - from.y
                 /\ (rw.res = "Ok") = (run.res = "Ok")
                 /\ rw.res = "Ok" =>
                      /\ Len(rw.walk) = Len(run.path)
                      /\ \A n \in DOMAIN rw.walk :
                            rw.walk[n] = <<run.path[n][1] + from.x, run.path[n][2] + from.y>>
                      /\ rw.walk[Len(rw.walk)] = <<to.x, to.y>>

\* C22 on Single pools alone
C22_RwBetweenSingle == pool.kind = "Single" => C22_RwBetween

\* a ByCoordinates filter whose points are not of the dataset's coordinate type
InvalidFilter(ds, f) ==
    /\ f.kind = "ByCoordinates"
    /\ (f.from.kind # ds.coordinate_type \/ f.to.kind # ds.coordinate_type)

\* the datapoint satisfies the filter
Satisfies(d, f) ==
    IF f.kind = "ByMetadata" THEN <<f.key, f.value>> \in d.metadata
    ELSE /\ f.from.x <= d.point.x /\ d.point.x <= f.to.x
         /\ f.from.y <= d.point.y /\ d.point.y <= f.to.y

\* C23: filter returns an error and leaves the dataset unchanged when one of
\* its filters is invalid for the dataset, whatever the dataset holds and
\* whatever filters precede it; otherwise it keeps the datapoints that
\* satisfy every filter, in their order, and returns their number
C23_Filter ==
    [][(filt = None /\ filt' # None) =>
          LET ds == Unwrap(dataset)
              fc == Unwrap(filt')
          IN  IF \E i \in DOMAIN fc.filters : InvalidFilter(ds, fc.filters[i])
              THEN fc.res = "Err" /\ dataset' = dataset
              ELSE /\ fc.res = "Ok"
                   /\ Unwrap(dataset').data
                        = SelectSeq(ds.data, LAMBDA d :
                            \A i \in DOMAIN fc.filters : Satisfies(d, fc.filters[i]))
                   /\ fc.n = Len(Unwrap(dataset').data)]_vars

\* C23 on the filter lists without an invalid filter
C23_FilterValid ==
    [][(filt = None /\ filt' # None
          /\ \A i \in DOMAIN Unwrap(filt').filters :
                ~InvalidFilter(Unwrap(dataset), Unwrap(filt').filters[i]))
        => /\ Unwrap(filt').res = "Ok"
           /\ Unwrap(dataset').data
                = SelectSeq(Unwrap(dataset).data, LAMBDA d :
                    \A i \in DOMAIN Unwrap(filt').filters :
                        Satisfies(d, Unwrap(filt').filters[i]))
           /\ Unwrap(filt').n = Len(Unwrap(dataset').data)]_vars


\* the sum of the claim: over the directions d' and the admissible predecessor
\* cells (dx, dy) of d that lie inside the grid
C24_Sum(dp, x, y, d, t) ==
    LET tl    == dp.time_limit
        cells == CellsPointingTo(dp.dir_kernel, d)
        nc    == Len(cells)
        Term(n) ==
            LET dd == (n - 1) \div nc
                dx == cells[((n - 1) % nc) + 1][1]
                dy == cells[((n - 1) % nc) + 1][2]
            IN  IF Abs(x + dx) > tl \/ Abs(y + dy) > tl THEN 0
                ELSE dp.table[t - 1][dd][tl + x + dx][tl + y + dy]
                     * KernelAt(dp.kernels[dd + 1], -dx, -dy)
    IN  SumSeq([n \in 1..(dp.num_directions * nc) |-> Term(n)])

\* C24: after compute() layer 0 is 1 at direction 0, site (0,0) and 0
\* elsewhere, and for t >= 1 every cell P[t][d][x][y] is the sum over the
\* directions d' and the cells (dx, dy) of cells_pointing_to(d) inside the
\* grid of P[t-1][d'][x+dx][y+dy] * kernels[d'].at(-dx, -dy), whatever the
\* field-type map is
C24_DirectionalForwardPass ==
    (IsSome(cdp) /\ Unwrap(cdp).computed) =>
        LET dp == Unwrap(cdp).dp
            tl == dp.time_limit
        IN  \A t \in 0..tl, d \in 0..(dp.num_directions - 1),
               x \in (-tl)..tl, y \in (-tl)..tl :
                CorAt(dp, x, y, d, t) =
                    IF t = 0 THEN (IF d = 0 /\ x = 0 /\ y = 0 THEN 1 ELSE 0)
                    ELSE C24_Sum(dp, x, y, d, t)

\* a computed program of two layers and several directions with a non-zero
\* field-type map, a kernel of asymmetric support and a cell of layer 2 in
\* a direction other than 0 reached by more than one path
C24_Witness ==
    /\ IsSome(cdp)
    /\ Unwrap(cdp).computed
    /\ LET dp == Unwrap(cdp).dp
       IN  /\ dp.time_limit = 2
           /\ dp.num_directions >= 2
           /\ dp.field_types # Matrix(5, 0)
           /\ dp.kernels[1] = SkewKernel
           /\ dp.dir_kernel[1] # BoxMoves(1)
           /\ \E x \in -2..2, y \in -2..2 : CorAt(dp, x, y, 1, 2) > 1


\* the moves the first reverse step of a directional walker is drawn from
C25_FirstSteps(w) == {FirstMove(w, direction) : direction \in FirstDirections(w)}

\* C25: once a directional walker has taken its first reverse step, the
\* moves that step was drawn from are the walker's whole candidate set: the
\* five moves stay, west, north, east, south for CorrelatedWalker and the
\* (2M+1)^2 offsets of the M-box for CorrelatedMultiStepWalker(M, .)
C25_FirstStep ==
    (/\ run.pc # "idle"
     /\ run.walker.kind \in {"Correlated", "CorrelatedMultiStep"}
     /\ run.path # <<>>) =>
        C25_FirstSteps(run.walker) =
            {Candidates(run.walker, 0)[n] :
                n \in 1..Len(Candidates(run.walker, 0))}


\* the sections that contain v
C26_Hits(sections, v) ==
    {k \in 1..Len(sections) : sections[k][1] <= v /\ v < sections[k][2]}

\* C26: for every max step size M >= 1 and directions_per_axis D with
\* 1 <= D <= 2M+1 the D sections are pairwise disjoint and their union is
\* exactly [-M, M]; every sampled move (dx, dy) with |dx|, |dy| <= M lies in
\* exactly one section per axis, the lookup does not fail and the direction
\* index row + D * column lies in 0..D*D-1
C26_Partition ==
    IsSome(sec) =>
        LET s == Unwrap(sec)
            m == s.walker.max_step_size
            d == s.walker.directions_per_axis
        IN  /\ Len(s.sections) = d
            /\ \A v \in (-m - d)..(m + d) :
                  Cardinality(C26_Hits(s.sections, v)) =
                      (IF Abs(v) <= m THEN 1 ELSE 0)
            /\ IsSome(s.mov) =>
                  /\ s.last_direction # PANIC
                  /\ s.last_direction \in 0..(d * d - 1)

\* the partition where the remainder is zero: the claim holds there
C26_PartitionEven ==
    (IsSome(sec) /\ (2 * Unwrap(sec).walker.max_step_size + 1)
                        % Unwrap(sec).walker.directions_per_axis = 0) =>
        LET s == Unwrap(sec)
            m == s.walker.max_step_size
            d == s.walker.directions_per_axis
        IN  /\ \A v \in (-m - d)..(m + d) :
                  Cardinality(C26_Hits(s.sections, v)) =
                      (IF Abs(v) <= m THEN 1 ELSE 0)
            /\ IsSome(s.mov) => s.last_direction \in 0..(d * d - 1)


\* the cell (x, y) lies in the k-th tile
C27_InTile(dp, k, x, y) ==
    /\ Chunk(dp, k)[1][1] <= x /\ x < Chunk(dp, k)[1][2]
    /\ Chunk(dp, k)[2][1] <= y /\ y < Chunk(dp, k)[2][2]

\* C27: when the nine tasks of layer t are submitted, layer t-1 is completely
\* written (it is the layer the serial pass computes), every task returns
\* what apply_kernel gives on that layer, and the nine tiles are pairwise
\* disjoint and cover exactly the grid; as long as layer t is under way
\* layer t-1 stays that layer and every result sent is one of those nine; each of
\* the nine tasks of layer t is waiting, in flight or written, and no layer
\* after t has been written to, so no task of layer t+1 exists before the
\* nine results of layer t are written
C27_LayerOrdering ==
    (par.pc = "layer") =>
        LET dp == par.dp
            tl == dp.time_limit
            t  == par.t
        IN  /\ dp.table[t - 1] = pool.dps[1].table[t - 1]
            /\ (par.taken = 0 /\ par.chan = <<>> /\ par.jobs = 1..Tiles) =>
                  /\ par.thunks = Thunks(dp, dp.table[t - 1])
                  /\ \A x \in (-tl - 1)..(tl + 1), y \in (-tl - 1)..(tl + 1) :
                        Cardinality({k \in 1..Tiles : C27_InTile(dp, k, x, y)})
                            = (IF Abs(x) <= tl /\ Abs(y) <= tl THEN 1 ELSE 0)
            /\ \A n \in 1..Len(par.chan) :
                  \E k \in (1..Tiles) \ par.jobs : par.chan[n] = par.thunks[k]
            /\ Cardinality(par.jobs) + Len(par.chan) + par.taken = Tiles
            /\ \A u \in (t + 1)..tl : dp.table[u] = Matrix(2 * tl + 1, 0)

\* layer 2 of a program with time limit 3 under way: some results written,
\* one in flight, some tasks waiting, layer 1 not zero
C27_Witness ==
    /\ par.pc = "layer"
    /\ par.t = 2
    /\ par.dp.time_limit = 3
    /\ par.taken >= 2
    /\ par.chan # <<>>
    /\ par.jobs # {}
    /\ \E x \in 0..6, y \in 0..6 : par.dp.table[1][x][y] > 0 /\ <<x, y>> # <<3, 3>>


\* a scalar walker was called on a Single program without barriers in which
\* every cell carries the walker's kernel, for a target that has mass at
\* time_steps, and has returned
C28_Case ==
    /\ run.pc = "done"
    /\ run.walker.kind \in {"Standard", "MultiStep"}
    /\ pool.kind = "Single"
    /\ builder.barriers = <<>>
    /\ pool.dps[1].field_types = Matrix(2 * pool.dps[1].time_limit + 1, 0)
    /\ pool.dps[1].kernels[1] = run.walker.kernel
    /\ run.time_steps \in 1..pool.dps[1].time_limit
    /\ TargetMass(pool.dps[1], run.to_x, run.to_y, run.time_steps) > 0

\* C28: on a Single program without barriers computed with the walker's own
\* kernel, for every T in 1..time limit and every target with P(target, T) > 0,
\* targets at distance exactly T included, StandardWalker and MultiStepWalker
\* return a walk under every sequence of draws: never InconsistentPath,
\* RandomDistributionError or a panic
C28_NoSpuriousFailure == C28_Case => run.res = "Ok"

\* the same with the five-move kernel for the targets that also have mass one
\* layer earlier
C28_MassBefore ==
    (/\ C28_Case
     /\ run.walker.kernel = SimpleKernel
     /\ TargetMassBefore(pool.dps[1], run.to_x, run.to_y, run.time_steps) > 0)
        => run.res = "Ok"


\* the labels of a (label, kernel) list are pairwise distinct
C29_DistinctLabels(kl) ==
    \A j, h \in 1..Len(kl) : kl[j][1] = kl[h][1] => j = h

\* the position in the list of the kernel registered for a label
C29_PositionOf(kl, label) == (CHOOSE j \in 1..Len(kl) : kl[j][1] = label) - 1

\* build() succeeded on kernels with distinct labels and a map, given or the
\* default one, whose labels all occur among them
C29_Case ==
    /\ buildRes = "Ok"
    /\ pool.kind = "Single"
    /\ C29_DistinctLabels(Unwrap(builder.kernels))
    /\ IsSome(builder.field_types) =>
          \A x \in DOMAIN Unwrap(builder.field_types) :
             \A y \in DOMAIN Unwrap(builder.field_types)[x] :
                HasLabel(Unwrap(builder.kernels), Unwrap(builder.field_types)[x][y])

\* the barrier cells of the builder as indices of the map
C29_BarrierCells ==
    {<<Unwrap(builder.time_limit) + builder.barriers[n][1],
       Unwrap(builder.time_limit) + builder.barriers[n][2]>> :
        n \in 1..Len(builder.barriers)}

\* C29: when build() succeeds with K kernels of distinct labels and a map
\* whose labels all occur among them, the program holds K+1 kernels, every
\* cell of its field-type map is an index in 0..K, every non-barrier cell
\* holds the position of the kernel registered for the cell's original
\* label, every barrier cell holds K, and kernel K is zero everywhere
C29_LabelRemapping ==
    C29_Case =>
        LET kl == Unwrap(builder.kernels)
            K  == Len(kl)
            dp == pool.dps[1]
            tl == Unwrap(builder.time_limit)
            original(x, y) == IF IsSome(builder.field_types)
                              THEN Unwrap(builder.field_types)[x][y] ELSE 0
        IN  /\ Len(dp.kernels) = K + 1
            /\ \A j \in 1..K : dp.kernels[j] = kl[j][2]
            /\ \A x \in -1..1, y \in -1..1 : KernelAt(dp.kernels[K + 1], x, y) = 0
            /\ \A x \in DOMAIN dp.field_types : \A y \in DOMAIN dp.field_types[x] :
                  /\ dp.field_types[x][y] \in 0..K
                  /\ IF <<x, y>> \in C29_BarrierCells
                     THEN dp.field_types[x][y] = K
                     ELSE dp.field_types[x][y] = C29_PositionOf(kl, original(x, y))

\* the same for the maps that are (2T+1) x (2T+1)
C29_RightSize ==
    (C29_Case /\ ~WrongSizeMap) =>
        LET kl == Unwrap(builder.kernels)
            K  == Len(kl)
            dp == pool.dps[1]
            original(x, y) == IF IsSome(builder.field_types)
                              THEN Unwrap(builder.field_types)[x][y] ELSE 0
        IN  /\ Len(dp.kernels) = K + 1
            /\ \A x \in DOMAIN dp.field_types : \A y \in DOMAIN dp.field_types[x] :
                  /\ dp.field_types[x][y] \in 0..K
                  /\ IF <<x, y>> \in C29_BarrierCells
                     THEN dp.field_types[x][y] = K
                     ELSE dp.field_types[x][y] = C29_PositionOf(kl, original(x, y))

\* build() succeeded on the two kernels whose labels are not their positions,
\* a map of the right size that uses both labels, and a barrier
C29_Witness ==
    /\ C29_Case
    /\ ~WrongSizeMap
    /\ IsSome(builder.field_types)
    /\ Unwrap(builder.kernels)[1][1] = 1
    /\ builder.barriers # <<>>
    /\ \E x \in DOMAIN pool.dps[1].field_types :
          \E y \in DOMAIN pool.dps[1].field_types[x] :
             /\ pool.dps[1].field_types[x][y] = 0
             /\ Unwrap(builder.field_types)[x][y] = 1


\* LandCoverWalker::new was called with a (2T+1) x (2T+1) map whose labels
\* all have a kernel
C30_Case ==
    /\ IsSome(lcw)
    /\ LET ft == Unwrap(builder.field_types)
       IN  /\ Rows(ft) % 2 = 1
           /\ \A x \in DOMAIN ft : Cardinality(DOMAIN ft[x]) = Rows(ft)
           /\ \A x \in DOMAIN ft : \A y \in DOMAIN ft[x] :
                 HasLabel(Unwrap(builder.kernels), ft[x][y])

\* C30: given a (2T+1) x (2T+1) map whose labels all have a kernel in the
\* list, LandCoverWalker::new returns a walker whose map holds in every cell
\* the position of the kernel registered for the cell's label; it reads and
\* writes only inside the map, so it does not panic
C30_LandCoverNew ==
    C30_Case =>
        /\ Unwrap(lcw).res = "Ok"
        /\ LET ft == Unwrap(builder.field_types)
           IN  \A x \in DOMAIN ft : \A y \in DOMAIN ft[x] :
                  Unwrap(lcw).walker.field_types[x][y]
                      = FieldTypeMap(Unwrap(builder.kernels), ft[x][y])

====
